---- MODULE Spec2Model ----
(***************************************************************************)
(* A model of zipperfly's download pipeline: the request handler           *)
(* (handlers.Handler.Download), the signature verifier                     *)
(* (auth.Verifier.Verify), the archive assembler                           *)
(* (handlers.Handler.streamFilesFromStorage) and the filesystem object     *)
(* store (storage.LocalProvider.GetObject).                                *)
(*                                                                         *)
(* Strings are sequences of character tokens.  Four specifications share   *)
(* the module's variables:                                                 *)
(*   Spec        concurrent Download requests against the shared           *)
(*               admission semaphore;                                      *)
(*   SpecVerify  one Download request whose query parameters are kept in   *)
(*               the state, through verification and the rest of the       *)
(*               handler;                                                  *)
(*   SpecStream  one call of streamFilesFromStorage, one goroutine per     *)
(*               object, followed by the handler's outcome bookkeeping;    *)
(*   SpecLocal   one call of LocalProvider.GetObject.                      *)
(***************************************************************************)
EXTENDS Integers, Sequences, FiniteSets, TLC

VARIABLES
    cfg,        \* the configuration the handler was built with
    clients,    \* the client addresses requests come from
    now,        \* time.Now().Unix()
    semCur,     \* permits held of Handler.maxActiveDownloads
    req,        \* Spec: one record per Download call
    vIn,        \* SpecVerify: the request on the wire
    vOut,       \* SpecVerify: what Download did with it
    metrics,    \* the Prometheus counters the claims read
    lIn,        \* SpecLocal: the (bucket, key) GetObject is called with
    lOut,       \* SpecLocal: what GetObject returned and which paths it opened
    breaker,    \* SpecLocal, SpecBreaker: the storage circuit breaker
    call,       \* SpecBreaker: the caller of Breaker.Execute
    tasks,      \* SpecStream: the goroutine of each object of the manifest
    fetchSem,   \* SpecStream: holders of the per-request fetch semaphore
    zipMu,      \* SpecStream: the task holding the ZIP mutex, 0 for none
    archive,    \* SpecStream: the entries of the ZIP writer's directory
    stream,     \* SpecStream: the writes to the ZIP writer, in order
    resultChan, \* SpecStream: the results sent and not yet received
    coll,       \* SpecStream: the collecting loop and Download's tail
    ctxDone,    \* SpecStream: the request context is cancelled
    cb,         \* SpecCallback: a sendCallbackWithRetry call
    pIn,        \* SpecFilter, SpecHeaders, SpecFilename: the step's input
    pOut,       \* SpecFilter, SpecHeaders, SpecFilename: what the step did
    bc          \* SpecCounter: a ByteCounter and the goroutines writing to it

reqVars == <<semCur, req>>
verVars == <<vIn, vOut>>
envVars == <<cfg, clients>>
locVars == <<lIn, lOut, breaker, call>>
strVars == <<tasks, fetchSem, zipMu, archive, stream, resultChan, coll, ctxDone>>
auxVars == <<cb, pIn, pOut, bc>>
vars == <<cfg, clients, now, semCur, req, vIn, vOut, metrics, lIn, lOut, breaker, call,
          tasks, fetchSem, zipMu, archive, stream, resultChan, coll, ctxDone,
          cb, pIn, pOut, bc>>

\* ------------------------------------------------------------------ bounds
NumProcs == 2         \* concurrent Download calls
MaxActive == 1        \* largest max_active_downloads tried
MaxTime == 1          \* the clock runs from 0 to MaxTime
MaxFiles == 2         \* max_files_per_request; manifests hold up to MaxFiles + 1 keys
MaxExpiryLen == 2     \* longest expiry query string (SpecVerify)
MaxKeySegs == 2       \* path elements in an object key (SpecLocal)
BreakerThreshold == 2 \* CIRCUIT_BREAKER_THRESHOLD of the modelled configuration
MaxConcurrent == 2    \* largest MAX_CONCURRENT_FETCHES modelled (SpecStream)
MaxChunks == 2        \* longest object body, in buffer-fulls (SpecStream)
MaxRetries == 2       \* largest STORAGE_MAX_RETRIES tried (SpecLocal)
MaxCancel == 2        \* latest instant of a call at which its context is cancelled
MaxProbes == 2        \* largest CIRCUIT_BREAKER_MAX_REQUESTS tried (SpecBreaker)
MaxClock == 4         \* last instant of the breaker's clock (SpecBreaker)
MaxCalls == 4         \* calls made through the breaker (SpecBreaker)
BreakerTimeout == 1   \* CIRCUIT_BREAKER_TIMEOUT, in clock ticks
RetryDelay == 1       \* STORAGE_RETRY_DELAY, in seconds
MaxCallbackRetries == 2 \* largest CALLBACK_MAX_RETRIES tried (SpecCallback)
MaxNameParts == 2     \* pieces a record's name is made of (SpecFilename)
MaxHeaders == 2       \* custom headers of a record (SpecHeaders)
NumWriters == 2       \* goroutines writing to one ByteCounter (SpecCounter)
MaxWriteLen == 2      \* longest slice given to ByteCounter.Write
CallbackRetryDelay == 1 \* CALLBACK_RETRY_DELAY, in units of its default

Procs == 1..NumProcs
IPs == {"ip1", "ip2"}

\* ----------------------------------------------------------------- strings
Range(s) == {s[i] : i \in 1..Len(s)}

SeqsUpTo(S, n) == UNION {[1..k -> S] : k \in 0..n}

\* strings.HasPrefix, on sequences of characters
HasPrefix(s, prefix) ==
    /\ Len(prefix) <= Len(s)
    /\ \A i \in 1..Len(prefix) : s[i] = prefix[i]

Digits == <<"0", "1", "2", "3", "4", "5", "6", "7", "8", "9">>

DigitValue(c) == (CHOOSE i \in 1..Len(Digits) : Digits[i] = c) - 1

IsDigit(c) == c \in Range(Digits)

RECURSIVE DecimalValue(_)
DecimalValue(s) ==
    IF s = <<>> THEN 0
    ELSE 10 * DecimalValue(SubSeq(s, 1, Len(s) - 1)) + DigitValue(s[Len(s)])

\* strconv.ParseInt(s, 10, 64): an optional sign, then one or more decimal
\* digits and nothing else.  (Within MaxExpiryLen digits no value leaves the
\* int64 range; a range error takes the same path as a syntax error.)
ParseInt(s) ==
    LET signed == s # <<>> /\ s[1] \in {"+", "-"}
        body == IF signed THEN Tail(s) ELSE s
    IN  IF body = <<>> \/ \E i \in 1..Len(body) : ~IsDigit(body[i])
        THEN [ok |-> FALSE, val |-> 0]
        ELSE [ok |-> TRUE,
              val |-> IF signed /\ s[1] = "-" THEN 0 - DecimalValue(body)
                      ELSE DecimalValue(body)]

\* ------------------------------------------------------- HMAC and hex
HexLower == <<"0", "1", "2", "3", "4", "5", "6", "7",
              "8", "9", "a", "b", "c", "d", "e", "f">>
HexUpper == <<"0", "1", "2", "3", "4", "5", "6", "7",
              "8", "9", "A", "B", "C", "D", "E", "F">>

\* A character's byte value, for the characters the model uses.
CharCode(c) ==
    CASE c = "|" -> 124
      [] c = "t" -> 116
      [] c = "u" -> 117
      [] c = "x" -> 120
      [] c = "+" -> 43
      [] c = "-" -> 45
      [] c = "expired" -> 101
      [] IsDigit(c) -> 48 + DigitValue(c)
      [] OTHER -> 63

RECURSIVE KeyedSum(_, _)
KeyedSum(acc, s) ==
    IF s = <<>> THEN acc
    ELSE KeyedSum((acc * 31 + CharCode(Head(s))) % 256, Tail(s))

\* hmac.New(sha256.New, secret); h.Write(payload); h.Sum(nil): a keyed
\* digest of the payload.  The model's digest is one byte wide.
Hmac(secret, payload) == <<KeyedSum(secret, payload)>>

\* hex.EncodeToString: two lower-case hex digits per byte
RECURSIVE EncodeToString(_)
EncodeToString(bytes) ==
    IF bytes = <<>> THEN <<>>
    ELSE <<HexLower[(Head(bytes) \div 16) + 1], HexLower[(Head(bytes) % 16) + 1]>>
         \o EncodeToString(Tail(bytes))

\* the same digest written with upper-case hex digits
EncodeUpper(bytes) ==
    LET low == EncodeToString(bytes)
    IN  [i \in 1..Len(low) |->
            HexUpper[CHOOSE k \in 1..Len(HexLower) : HexLower[k] = low[i]]]

SigningSecret == 7

\* ------------------------------------------------------------ Verifier
NoError == [kind |-> "nil", arg |-> <<>>]
ErrInvalidExpiry(s) == [kind |-> "invalid expiry", arg |-> s]
ErrExpired == [kind |-> "request has expired", arg |-> <<>>]
ErrSignatureRequired == [kind |-> "signature required", arg |-> <<>>]
ErrInvalidSignature == [kind |-> "invalid signature", arg |-> <<>>]

\* the payload the signature is computed over
Payload(id, expiryStr) ==
    IF expiryStr # <<>> THEN id \o <<"|">> \o expiryStr ELSE id

ExpectedSig(id, expiryStr) ==
    EncodeToString(Hmac(SigningSecret, Payload(id, expiryStr)))

\* mutant: the comparison ignores the case of the hex digits
SigMismatchFold(signature, expectedSig) ==
    [i \in 1..Len(signature) |->
        IF \E k \in 1..Len(HexUpper) : HexUpper[k] = signature[i]
        THEN HexLower[CHOOSE k \in 1..Len(HexUpper) : HexUpper[k] = signature[i]]
        ELSE signature[i]] # expectedSig

\* signature != expectedSig
SigMismatch(signature, expectedSig) == signature # expectedSig

\* time.Now().Unix() > expiry
IsPast(t, expiry) == t > expiry

\* mutant: the signature is checked before the expiry
VerifySignatureFirst(id, expiryStr, signature, t, enforceSigning) ==
    LET hasExpiry == expiryStr # <<>>
        parsed == ParseInt(expiryStr)
        ret(e, x, s) == [err |-> e, expiredInc |-> x, sigFailInc |-> s]
    IN  IF hasExpiry /\ ~parsed.ok THEN ret(ErrInvalidExpiry(expiryStr), 0, 0)
        ELSE IF (enforceSigning \/ signature # <<>>) /\ signature = <<>>
             THEN ret(ErrSignatureRequired, 0, 1)
        ELSE IF (enforceSigning \/ signature # <<>>)
                /\ SigMismatch(signature, ExpectedSig(id, expiryStr))
             THEN ret(ErrInvalidSignature, 0, 1)
        ELSE IF hasExpiry /\ IsPast(t, parsed.val) THEN ret(ErrExpired, 1, 0)
        ELSE ret(NoError, 0, 0)

\* Verifier.Verify: the error returned and the counters incremented.
Verify(id, expiryStr, signature, t, enforceSigning) ==
    LET hasExpiry == expiryStr # <<>>
        parsed == ParseInt(expiryStr)
        ret(e, x, s) == [err |-> e, expiredInc |-> x, sigFailInc |-> s]
    IN  IF hasExpiry /\ ~parsed.ok THEN ret(ErrInvalidExpiry(expiryStr), 0, 0)
        ELSE IF hasExpiry /\ IsPast(t, parsed.val) THEN ret(ErrExpired, 1, 0)
        ELSE IF enforceSigning \/ signature # <<>>
             THEN IF signature = <<>> THEN ret(ErrSignatureRequired, 0, 1)
                  ELSE IF SigMismatch(signature, ExpectedSig(id, expiryStr))
                       THEN ret(ErrInvalidSignature, 0, 1)
                       ELSE ret(NoError, 0, 0)
             ELSE ret(NoError, 0, 0)

\* strings.Contains(err.Error(), "expired").  The text of an invalid-expiry
\* error is
\*   invalid expiry: strconv.ParseInt: parsing "<expiryStr>": invalid syntax
\* so it holds "expired" exactly when the expiry string does (the token
\* "expired" stands for those seven characters).
ErrorContainsExpired(err) ==
    \/ err.kind = "request has expired"
    \/ err.kind = "invalid expiry" /\ "expired" \in Range(err.arg)

\* Download's choice of status for a verification error
VerifyStatus(err) == IF ErrorContainsExpired(err) THEN 410 ELSE 401

\* Download from reading the id up to the verification: the status of the
\* early return (0 when the handler goes on to the lookup).
ValidateStatus(id, v) ==
    IF id = <<>> THEN 400
    ELSE IF v.err # NoError THEN VerifyStatus(v.err)
    ELSE 0

\* ------------------------------------------------------ keys and filters
\* filepath.Ext: the suffix of the path's last element from its last dot
LastIndex(s, c) ==
    LET at == {i \in 1..Len(s) : s[i] = c}
    IN  IF at = {} THEN 0 ELSE CHOOSE i \in at : \A j \in at : j <= i

Ext(path) ==
    IF LastIndex(path, ".") > LastIndex(path, "/")
    THEN SubSeq(path, LastIndex(path, "."), Len(path))
    ELSE <<>>

\* the letters of the modelled names, in both cases
LowerLetters == <<"a", "c", "d", "e", "i", "n", "o", "p", "s", "t", "x", "y", "z">>
UpperLetters == <<"A", "C", "D", "E", "I", "N", "O", "P", "S", "T", "X", "Y", "Z">>

\* unicode.ToLower; an extension in capitals is one symbol of a key
LowerChar(c) ==
    CASE c = "EXE" -> "exe"
      [] c = "TXT" -> "txt"
      [] c \in Range(UpperLetters) ->
            LowerLetters[CHOOSE k \in DOMAIN UpperLetters : UpperLetters[k] = c]
      [] OTHER -> c

\* unicode.ToUpper
UpperChar(c) ==
    IF c \in Range(LowerLetters)
    THEN UpperLetters[CHOOSE k \in DOMAIN LowerLetters : LowerLetters[k] = c]
    ELSE c

\* strings.ToLower
ToLower(s) == [i \in 1..Len(s) |-> LowerChar(s[i])]

InList(x, list) == \E i \in 1..Len(list) : list[i] = x

\* mutant: a file on the allow list is kept without a look at the block list
KeepFileAllowWins(file, allowed, blocked) ==
    LET ext == ToLower(Ext(file))
    IN  \/ InList(ext, allowed)
        \/ (Len(allowed) = 0 /\ ~InList(ext, blocked))

\* one iteration of filterFilesByExtension's loop: is the file kept?
KeepFile(file, allowed, blocked) ==
    LET ext == ToLower(Ext(file))
    IN  /\ ~InList(ext, blocked)
        /\ (Len(allowed) > 0 => InList(ext, allowed))

RECURSIVE FilterLoop(_, _, _)
FilterLoop(files, allowed, blocked) ==
    IF files = <<>> THEN <<>>
    ELSE (IF KeepFile(Head(files), allowed, blocked) THEN <<Head(files)>> ELSE <<>>)
         \o FilterLoop(Tail(files), allowed, blocked)

\* Handler.filterFilesByExtension
filterFilesByExtension(files, allowed, blocked) ==
    IF Len(allowed) = 0 /\ Len(blocked) = 0 THEN files
    ELSE FilterLoop(files, allowed, blocked)

KeyA == <<"a", ".", "txt">>
KeyB == <<"d", "/", "b", ".", "EXE">>
KeyC == <<"c">>
Keys == {KeyA, KeyB, KeyC}

\* record.Objects of the manifests in the database
Manifests == SeqsUpTo(Keys, MaxFiles + 1)

\* ---------------------------------------------------------- file names
\* strings.HasSuffix
HasSuffix(s, suffix) ==
    /\ Len(suffix) <= Len(s)
    /\ \A i \in 1..Len(suffix) : s[Len(s) - Len(suffix) + i] = suffix[i]

\* the characters sanitizeFilename replaces: the reserved ones and, of the
\* characters outside 32..126, a tab and a non-ASCII letter
ReservedChars == {"\\", "/", ":", "*", "?", "\"", "<", ">", "|"}
UnprintableChars == {"\t", "é"}

SanitizeChar(c) ==
    IF c \in UnprintableChars \cup ReservedChars THEN "_" ELSE c

\* strings.Trim(s, cutset)
RECURSIVE TrimLeft(_, _)
TrimLeft(s, cutset) ==
    IF s # <<>> /\ Head(s) \in cutset THEN TrimLeft(Tail(s), cutset) ELSE s

RECURSIVE TrimRight(_, _)
TrimRight(s, cutset) ==
    IF s # <<>> /\ s[Len(s)] \in cutset
    THEN TrimRight(SubSeq(s, 1, Len(s) - 1), cutset)
    ELSE s

Trim(s, cutset) == TrimRight(TrimLeft(s, cutset), cutset)

sanitizeFilename(name) ==
    Trim([i \in 1..Len(name) |-> SanitizeChar(name[i])], {" ", "."})

DotZip == <<".", "z", "i", "p">>
DefaultName == <<"d", "o", "w", "n", "l", "o", "a", "d">>
\* time.Now().Format("20060102")
Today == <<"2", "0", "2", "6", "1", "1", "0", "5">>

\* Handler.prepareFilename
prepareFilename(name, sanitizeNames, appendYMD) ==
    LET filename == IF name = <<>> THEN DefaultName
                    ELSE IF sanitizeNames THEN sanitizeFilename(name)
                    ELSE name
        stripped == IF HasSuffix(ToLower(filename), DotZip)
                    THEN SubSeq(filename, 1, Len(filename) - 4)
                    ELSE filename
        dated == IF appendYMD THEN stripped \o <<"-">> \o Today ELSE stripped
    IN  dated \o DotZip

\* ---------------------------------------------------- response headers
\* textproto.CanonicalMIMEHeaderKey, for names of letters and hyphens: the
\* first letter and every letter after a hyphen in upper case, the others
\* in lower case
CanonicalMIMEHeaderKey(s) ==
    [i \in 1..Len(s) |->
        IF i = 1 \/ s[i - 1] = "-" THEN UpperChar(s[i]) ELSE LowerChar(s[i])]

\* http.Header.Set: the value replaces whatever the canonical name holds
HeaderSet(h, key, value) ==
    LET k == CanonicalMIMEHeaderKey(key)
    IN  [x \in DOMAIN h \cup {k} |-> IF x = k THEN value ELSE h[x]]

ContentType == <<"C", "o", "n", "t", "e", "n", "t", "-", "T", "y", "p", "e">>
ContentDisposition ==
    <<"C", "o", "n", "t", "e", "n", "t", "-",
      "D", "i", "s", "p", "o", "s", "i", "t", "i", "o", "n">>

\* fmt.Sprintf(`attachment; filename="%s"`, filename)
Disposition(filename) == <<"attachment; filename=\"">> \o filename \o <<"\"">>

\* the loop over record.CustomHeaders, in the order the map is ranged over
RECURSIVE ApplyCustomHeaders(_, _, _)
ApplyCustomHeaders(h, custom, order) ==
    IF order = <<>> THEN h
    ELSE ApplyCustomHeaders(HeaderSet(h, Head(order), custom[Head(order)]),
                            custom, Tail(order))

\* Download's response headers for a record's custom headers, ranged over
\* in the given order, and the prepared file name
ResponseHeaders(custom, order, filename) ==
    HeaderSet(HeaderSet(ApplyCustomHeaders(<<>>, custom, order),
                        ContentType, <<"application/zip">>),
              ContentDisposition, Disposition(filename))

\* ------------------------------------------------------- manifest lookup
\* what Store.GetRecord returns: a record, or one of its errors (no row /
\* redis.Nil, a query timeout, a lost connection, a record that does not
\* decode)
DbErrors == {"ErrNoRows", "DeadlineExceeded", "ConnectionLost", "UnmarshalError"}

\* Download after GetRecord: the status of the early return (0: go on)
LookupStatus(dbErr) == IF dbErr # "nil" THEN 404 ELSE 0

\* Download's resource limit and extension filter: the status of the early
\* return (0: go on) for a loaded record
LimitStatus(objects, c) ==
    IF c.maxFilesPerRequest > 0 /\ Len(objects) > c.maxFilesPerRequest THEN 400
    ELSE IF Len(filterFilesByExtension(objects, c.allowedExtensions, c.blockedExtensions)) = 0
         THEN 400
    ELSE 0

\* mutant: the first error is dropped also when missing files are not ignored
StreamReturnDropsError(ignoreMissing, n, successCount, fetchErr) ==
    IF ignoreMissing /\ successCount = 0 /\ n > 0
    THEN [successCount |-> 0, err |-> "all files missing or failed to fetch"]
    ELSE [successCount |-> successCount, err |-> "nil"]

\* ------------------------------------------------ outcome of a download
\* the tail of streamFilesFromStorage: what it returns once every task has
\* reported (fetchErr: the first error received, "nil" when none)
StreamReturn(ignoreMissing, n, successCount, fetchErr) ==
    IF ignoreMissing /\ successCount = 0 /\ n > 0
    THEN [successCount |-> 0, err |-> "all files missing or failed to fetch"]
    ELSE IF ~ignoreMissing /\ fetchErr # "nil"
         THEN [successCount |-> successCount, err |-> fetchErr]
    ELSE [successCount |-> successCount, err |-> "nil"]

\* mutant: a short archive still counts as completed
DownloadStatusNoPartial(fetchErr, successCount, n) ==
    IF fetchErr # "nil" THEN "failed" ELSE "completed"

\* Download's status for the callback and downloads_total
DownloadStatus(fetchErr, successCount, n) ==
    IF fetchErr # "nil" THEN "failed"
    ELSE IF successCount < n THEN "partial"
    ELSE "completed"

\* what one task can send on resultChan
TaskResults(ignoreMissing) ==
    {[err |-> "nil", success |-> TRUE], [err |-> "fetch error", success |-> FALSE]}
    \cup (IF ignoreMissing THEN {[err |-> "nil", success |-> FALSE]} ELSE {})

\* the collecting loop of streamFilesFromStorage over the results received
SuccessCount(results) == Cardinality({i \in DOMAIN results : results[i].success})

FirstError(results) ==
    LET bad == {i \in DOMAIN results : ~results[i].success /\ results[i].err # "nil"}
    IN  IF bad = {} THEN "nil"
        ELSE results[CHOOSE i \in bad : \A j \in bad : i <= j].err

\* ------------------------------------------------------------- metrics
Statuses == {200, 400, 401, 404, 410, 429, 500, 503}
Labels == {"completed", "partial", "failed"}
FetchLabels == {"success", "missing", "error"}

ZeroMetrics ==
    [activeDownloads |-> 0,
     requestsTotal |-> [s \in Statuses |-> 0],
     downloadsTotal |-> [l \in Labels |-> 0],
     expiredRequestsTotal |-> 0,
     signatureFailuresTotal |-> 0,
     clientDisconnectsTotal |-> 0,
     filesFetchTotal |-> [l \in FetchLabels |-> 0],
     missingFilesTotal |-> 0,
     callbacksTotal |-> [l \in {"success", "failure"} |-> 0],
     callbackRetries |-> 0]

\* mutant: the gauge is not decremented on return
DecActiveNever(m) == m

\* the deferred h.metrics.ActiveDownloads.Dec()
DecActive(m) == [m EXCEPT !.activeDownloads = @ - 1]

IncRequests(m, status) ==
    [m EXCEPT !.requestsTotal[status] = @ + 1]

\* the counters at the end of a streamed Download
FinishMetrics(m, label, ctxErr) ==
    LET m1 == IF ctxErr THEN [m EXCEPT !.clientDisconnectsTotal = @ + 1] ELSE m
        m2 == [m1 EXCEPT !.downloadsTotal[label] = @ + 1]
    IN  IncRequests(DecActive(m2), 200)


\* ================================================ LocalProvider.GetObject
\* Paths are strings over "/", "." and name characters.
BasePath == <<"/", "v", "/", "f">>

\* the path elements between the separators
RECURSIVE SplitPath(_)
SplitPath(s) ==
    IF s = <<>> THEN <<<<>>>>
    ELSE LET rest == SplitPath(Tail(s))
         IN  IF Head(s) = "/" THEN <<<<>>>> \o rest
             ELSE <<<<Head(s)>> \o Head(rest)>> \o Tail(rest)

\* filepath.Clean on the elements of a rooted path: empty elements and "."
\* go, ".." removes the element before it (or nothing at the root)
RECURSIVE CleanElems(_, _)
CleanElems(elems, stack) ==
    IF elems = <<>> THEN stack
    ELSE LET el == Head(elems)
         IN  IF el = <<>> \/ el = <<".">> THEN CleanElems(Tail(elems), stack)
             ELSE IF el = <<".", ".">>
                  THEN CleanElems(Tail(elems),
                                  IF stack = <<>> THEN stack
                                  ELSE SubSeq(stack, 1, Len(stack) - 1))
             ELSE CleanElems(Tail(elems), Append(stack, el))

RECURSIVE Rooted(_)
Rooted(elems) ==
    IF elems = <<>> THEN <<>>
    ELSE <<"/">> \o Head(elems) \o Rooted(Tail(elems))

\* filepath.Clean of a rooted path
Clean(path) ==
    LET elems == CleanElems(SplitPath(path), <<>>)
    IN  IF elems = <<>> THEN <<"/">> ELSE Rooted(elems)

\* filepath.Join(basePath, bucket, key), the bucket left out when empty;
\* Join skips empty elements and cleans the result
FullPath(base, bucket, key) ==
    Clean(base
          \o (IF bucket = <<>> THEN <<>> ELSE <<"/">> \o bucket)
          \o (IF key = <<>> THEN <<>> ELSE <<"/">> \o key))

\* the security check: strings.HasPrefix(fullPath, l.basePath)
WithinBase(fullPath, base) == HasPrefix(fullPath, base)

\* the files that exist, inside the base directory and outside it
Files ==
    {<<"/", "v", "/", "f", "/", "a">>,
     <<"/", "v", "/", "f", "/", "s", "/", "a">>,
     <<"/", "v", "/", "f", "2", "/", "a">>,
     <<"/", "e", "/", "a">>}

\* os.Open: nil, or the error
OpenError(path) == IF path \in Files THEN "nil" ELSE "ENOENT"

\* ------------------------------------------------ the circuit breaker
\* circuitbreaker.New hands these settings to gobreaker: Interval and Timeout
\* are both CircuitBreakerTimeout, ReadyToTrip compares ConsecutiveFailures
\* with the threshold, OnStateChange sets the gauge to float64(to).
ZeroTime == 0 - 1

\* gobreaker.State as a number: StateClosed, StateHalfOpen, StateOpen
StateValue(state) ==
    CASE state = "closed" -> 0
      [] state = "half-open" -> 1
      [] state = "open" -> 2

ReadyToTrip(b) == b.consecutiveFailures >= BreakerThreshold

\* a new generation: the counts are cleared and the expiry is set for the state
ToNewGeneration(b, t) ==
    [b EXCEPT !.generation = @ + 1,
              !.requests = 0,
              !.consecutiveSuccesses = 0,
              !.consecutiveFailures = 0,
              !.expiry = CASE b.state = "closed" -> t + BreakerTimeout
                           [] b.state = "open" -> t + BreakerTimeout
                           [] b.state = "half-open" -> ZeroTime]

\* setState: a change of state starts a generation and calls OnStateChange
SetState(b, state, t) ==
    IF b.state = state THEN b
    ELSE [ToNewGeneration([b EXCEPT !.state = state], t)
             EXCEPT !.gauge = StateValue(state)]

\* gobreaker.NewCircuitBreaker at time 0
NewBreaker(maxRequests) ==
    [state |-> "closed", generation |-> 0, requests |-> 0,
     consecutiveSuccesses |-> 0, consecutiveFailures |-> 0,
     expiry |-> BreakerTimeout, maxRequests |-> maxRequests, gauge |-> 0]

\* currentState: in closed the counts are cleared when the interval is over,
\* in open the breaker becomes half-open when the timeout is over
CurrentState(b, t) ==
    IF b.state = "closed" /\ b.expiry # ZeroTime /\ b.expiry < t
    THEN ToNewGeneration(b, t)
    ELSE IF b.state = "open" /\ b.expiry < t
    THEN SetState(b, "half-open", t)
    ELSE b

\* beforeRequest: the call is refused in open, and in half-open once
\* MaxRequests calls have been let in
BeforeRequest(b, t) ==
    LET c == CurrentState(b, t)
    IN  IF c.state = "open"
        THEN [b |-> c, err |-> "circuit breaker is open"]
        ELSE IF c.state = "half-open" /\ c.requests >= c.maxRequests
        THEN [b |-> c, err |-> "too many requests"]
        ELSE [b |-> [c EXCEPT !.requests = @ + 1], err |-> "nil"]

OnSuccess(b, t) ==
    LET c == [b EXCEPT !.consecutiveSuccesses = @ + 1, !.consecutiveFailures = 0]
    IN  IF b.state = "half-open" /\ c.consecutiveSuccesses >= c.maxRequests
        THEN SetState(c, "closed", t)
        ELSE c

OnFailure(b, t) ==
    LET c == [b EXCEPT !.consecutiveFailures = @ + 1, !.consecutiveSuccesses = 0]
    IN  IF b.state = "half-open" THEN SetState(b, "open", t)
        ELSE IF b.state = "closed" /\ ReadyToTrip(c) THEN SetState(c, "open", t)
        ELSE c

\* afterRequest: the result of a call begun in an earlier generation is dropped
AfterRequest(b, t, before, success) ==
    LET c == CurrentState(b, t)
    IN  IF c.generation # before THEN c
        ELSE IF success THEN OnSuccess(c, t)
        ELSE OnFailure(c, t)

\* ------------------------------------------- LocalProvider.GetObject, ctd.
\* isLocalRetryableError: not found and permission denied are final
IsLocalRetryableError(err) == err \notin {"nil", "ENOENT", "EACCES"}

\* ctx.Done() at the instant t of the call; cancelAt is the instant the
\* context is cancelled, counted from the start of the call
Never == 0 - 1
CtxDone(in, t) == in.cancelAt # Never /\ in.cancelAt <= t

\* the sleep before the given attempt: retryDelay * 2^(attempt-1)
Backoff(attempt) == RetryDelay * 2^(attempt - 1)

\* the retry loop from the given attempt on, at instant t of the call: the
\* first `faults` opens fail with the error in.fault, later ones give the
\* file system's answer; time.Sleep lasts the whole backoff.  The result has
\* the error returned, the number of os.Open calls, the sleeps made and the
\* instant of the return.
RECURSIVE RetryLoop(_, _, _, _, _)
RetryLoop(fullPath, in, attempt, delays, t) ==
    LET slept == IF attempt > 0 THEN Append(delays, Backoff(attempt)) ELSE delays
        woke == IF attempt > 0 THEN t + Backoff(attempt) ELSE t
        err == IF attempt < in.faults THEN in.fault ELSE OpenError(fullPath)
    IN  IF CtxDone(in, woke)
        THEN [err |-> "context canceled", attempts |-> attempt, delays |-> slept,
              returnedAt |-> woke]
        ELSE IF err = "nil"
        THEN [err |-> "nil", attempts |-> attempt + 1, delays |-> slept,
              returnedAt |-> woke]
        ELSE IF ~IsLocalRetryableError(err) \/ attempt = in.maxRetries
        THEN [err |-> "failed to open file", attempts |-> attempt + 1,
              delays |-> slept, returnedAt |-> woke]
        ELSE RetryLoop(fullPath, in, attempt + 1, slept, woke)

\* what the function passed to circuitBreaker.Execute does for (bucket, key):
\* the error it returns, the paths it passes to os.Open, the number of opens,
\* the sleeps and the instant of the return
Fetch(in) ==
    LET fullPath == FullPath(BasePath, in.bucket, in.key)
        r == RetryLoop(fullPath, in, 0, <<>>, 0)
    IN  IF ~WithinBase(fullPath, BasePath)
        THEN [err |-> "path traversal attempt detected", opened |-> {},
              attempts |-> 0, delays |-> <<>>, returnedAt |-> 0,
              bodyCtx |-> "none"]
        ELSE [err |-> r.err,
              opened |-> IF r.attempts > 0 THEN {fullPath} ELSE {},
              attempts |-> r.attempts, delays |-> r.delays,
              returnedAt |-> r.returnedAt, bodyCtx |-> "none"]

\* mutant: the provider's function runs whatever the breaker says
GuardedRunsAnyway(r) ==
    /\ lOut' = [called |-> TRUE, err |-> r.err, opened |-> r.opened,
                ran |-> TRUE, attempts |-> r.attempts,
                delays |-> r.delays, returnedAt |-> r.returnedAt,
                bodyCtx |-> r.bodyCtx]
    /\ breaker' = breaker

\* Execute of the provider's function through the breaker
Guarded(r) ==
    LET before == BeforeRequest(breaker, now)
    IN  IF before.err # "nil"
        THEN /\ lOut' = [called |-> TRUE, err |-> before.err, opened |-> {},
                         ran |-> FALSE, attempts |-> 0, delays |-> <<>>,
                         returnedAt |-> 0, bodyCtx |-> "none"]
             /\ breaker' = before.b
        ELSE /\ lOut' = [called |-> TRUE, err |-> r.err, opened |-> r.opened,
                         ran |-> TRUE, attempts |-> r.attempts,
                         delays |-> r.delays, returnedAt |-> r.returnedAt,
                         bodyCtx |-> r.bodyCtx]
             /\ breaker' = AfterRequest(before.b, now, before.b.generation,
                                        r.err = "nil")

\* LocalProvider.GetObject
GetObject ==
    /\ ~lOut.called
    /\ lIn.backend = "local"
    /\ Guarded(Fetch(lIn))
    /\ UNCHANGED <<envVars, now, reqVars, verVars, metrics, lIn, call, strVars, auxVars>>

\* ------------------------------------------------ S3Provider.GetObject
\* isRetryableError: only the context's errors are final
IsRetryableError(err) == err \notin {"nil", "context canceled", "deadline exceeded"}

\* `defer cancel()` in the function handed to Execute: the deferred calls run
\* when that function returns, so the context made by context.WithTimeout
\* for an attempt is cancelled by then
DeferredCancel(ctxState) == "cancelled"

\* the retry loop of the S3 provider: the first `faults` calls of
\* client.GetObject fail with the error in.fault, later ones succeed; a call
\* made with a cancelled context fails with the context's error.  bodyCtx is
\* the state, at the return, of the context the returned body was fetched
\* with ("none": no body is returned).
RECURSIVE S3RetryLoop(_, _, _, _)
S3RetryLoop(in, attempt, delays, t) ==
    LET slept == IF attempt > 0 THEN Append(delays, Backoff(attempt)) ELSE delays
        woke == IF attempt > 0 THEN t + Backoff(attempt) ELSE t
        err == IF CtxDone(in, woke) THEN "context canceled"
               ELSE IF attempt < in.faults THEN in.fault
               ELSE "nil"
    IN  IF ~IsRetryableError(err) \/ attempt = in.maxRetries
        THEN [err |-> err, opened |-> {}, attempts |-> attempt + 1,
              delays |-> slept, returnedAt |-> woke,
              bodyCtx |-> IF err = "nil" THEN DeferredCancel("live") ELSE "none"]
        ELSE S3RetryLoop(in, attempt + 1, slept, woke)

S3GetObject ==
    /\ ~lOut.called
    /\ lIn.backend = "s3"
    /\ Guarded(S3RetryLoop(lIn, 0, <<>>, 0))
    /\ UNCHANGED <<envVars, now, reqVars, verVars, metrics, lIn, call, strVars, auxVars>>

\* the errors a failing attempt can end in
LocalFaults == {"EIO", "ENOENT", "EACCES"}
S3Faults == {"SlowDown", "NoSuchKey", "AccessDenied"}

NoLocalInput ==
    [backend |-> "local", bucket |-> <<>>, key |-> <<>>, cancelAt |-> Never,
     faults |-> 0, fault |-> "EIO", maxRetries |-> 0]

\* ------------------------------------- calls through the breaker, in time
\* One caller at a time; the clock may advance while the wrapped function
\* runs.  `call` keeps what the caller saw: whether the last call was let
\* in, in which state, how it ended, and the run of failures so far.
NoCall ==
    [pc |-> "idle", generation |-> 0, startedAt |-> 0, admitted |-> FALSE,
     probe |-> FALSE, ended |-> "none", failRun |-> 0, failAt |-> 0,
     calls |-> 0]

\* Breaker.Execute up to the wrapped function
ExecuteBegin ==
    /\ call.pc = "idle"
    /\ call.calls < MaxCalls
    /\ LET before == BeforeRequest(breaker, now)
       IN  /\ breaker' = before.b
           /\ call' = IF before.err # "nil"
                      THEN [call EXCEPT !.calls = @ + 1,
                                        !.admitted = FALSE, !.probe = FALSE,
                                        !.startedAt = now, !.ended = "refused"]
                      ELSE [call EXCEPT !.calls = @ + 1,
                                        !.pc = "running", !.admitted = TRUE,
                                        !.generation = before.b.generation,
                                        !.probe = before.b.state = "half-open",
                                        !.startedAt = now, !.ended = "none"]
    /\ UNCHANGED <<envVars, now, reqVars, verVars, metrics, lIn, lOut, strVars, auxVars>>

\* the wrapped function returns and Execute finishes
ExecuteEnd ==
    /\ call.pc = "running"
    /\ \E success \in BOOLEAN :
        LET after == AfterRequest(breaker, now, call.generation, success)
        IN  /\ breaker' = after
            /\ call' = [call EXCEPT
                          !.pc = "idle",
                          !.ended = IF success THEN "success" ELSE "failure",
                          !.failRun = IF success THEN 0 ELSE @ + 1,
                          !.failAt = IF success THEN @ ELSE now]
    /\ UNCHANGED <<envVars, now, reqVars, verVars, metrics, lIn, lOut, strVars, auxVars>>

\* time passes
Elapse ==
    /\ now < MaxClock
    /\ now' = now + 1
    /\ UNCHANGED <<envVars, reqVars, verVars, metrics, locVars, strVars, auxVars>>

\* object keys and buckets: up to MaxKeySegs elements joined by "/"
KeySegs == {<<".", ".">>, <<".">>, <<"a">>, <<"f", "2">>, <<"s">>, <<"e">>}

RECURSIVE JoinSegs(_)
JoinSegs(segs) ==
    IF segs = <<>> THEN <<>>
    ELSE IF Len(segs) = 1 THEN Head(segs)
    ELSE Head(segs) \o <<"/">> \o JoinSegs(Tail(segs))

ObjectKeys == {JoinSegs(segs) : segs \in SeqsUpTo(KeySegs, MaxKeySegs)}

Buckets == {<<>>, <<"s">>, <<".", ".">>, <<".", ".", "/", ".", ".">>}

NoLocalOutput ==
    [called |-> FALSE, err |-> "nil", opened |-> {}, ran |-> FALSE,
     attempts |-> 0, delays |-> <<>>, returnedAt |-> 0, bodyCtx |-> "none"]

\* the other specifications make no GetObject call of their own
LocalUnused ==
    /\ lIn = NoLocalInput
    /\ lOut = NoLocalOutput
    /\ breaker = NewBreaker(1)
    /\ call = NoCall

\* ============================================ streamFilesFromStorage
\* One goroutine per object.  A task's report is the files_fetch_total label
\* it counts; err is the error of the result it sends; unlocks is the number
\* of zipMu.Unlock calls it made.
NewTask(size) ==
    [pc |-> "acquire", size |-> size, read |-> 0, fetch |-> "none",
     report |-> "none", err |-> "nil", unlocks |-> 0]

NoColl ==
    [received |-> 0, successCount |-> 0, fetchErr |-> "nil",
     returned |-> FALSE, err |-> "nil", status |-> "none", closed |-> FALSE,
     finalised |-> FALSE, inBytes |-> 0, outBytes |-> 0, bodyBytes |-> 0]

\* the other specifications do not stream
StreamUnused ==
    /\ tasks = <<>>
    /\ fetchSem = 0
    /\ zipMu = 0
    /\ archive = <<>>
    /\ stream = <<>>
    /\ resultChan = <<>>
    /\ coll = NoColl
    /\ ctxDone = FALSE

\* the other specifications make no callback, run none of the single steps
\* and count no bytes
NoCallback ==
    [url |-> "", maxRetries |-> 0, pc |-> "idle", attempt |-> 0,
     tries |-> <<>>, slept |-> 0]

NoStep == [fn |-> "none"]

NoCounter == [count |-> 0, writers |-> <<>>]

AuxUnused ==
    /\ cb = NoCallback
    /\ pIn = NoStep
    /\ pOut = NoStep
    /\ bc = NoCounter

\* FilesFetchTotal.WithLabelValues(label).Inc(), and MissingFilesTotal.Inc()
\* for a skipped object
CountFetch(m, label) ==
    LET m1 == [m EXCEPT !.filesFetchTotal[label] = @ + 1]
    IN  IF label = "missing" THEN [m1 EXCEPT !.missingFilesTotal = @ + 1] ELSE m1

\* make(chan result, len(record.Objects))
ChanCap(n) == n

\* the label is counted, resultChan <- result{err, success}, return: the task
\* ends with the label it counted, after the given number of zipMu.Unlock
\* calls on its path.  The send waits while the channel is full.
Send(i, fetched, label, err, unlocks) ==
    /\ Len(resultChan) < ChanCap(Len(tasks))
    /\ tasks' = [tasks EXCEPT ![i].pc = "done", ![i].fetch = fetched,
                              ![i].report = label, ![i].err = err,
                              ![i].unlocks = unlocks]
    /\ resultChan' = Append(resultChan, [err |-> err, success |-> label = "success"])
    /\ metrics' = CountFetch(metrics, label)

\* what h.storage.GetObject can return: a body, or one of the error kinds
FetchErrors == {"NotFound", "PermanentError", "TransientError", "CircuitOpen"}

\* mutant: a slot is given whatever the state of the context
CanAcquireIgnoringCtx(cur, size, done) == cur < size

\* mutant: one permit too many is given out
CanAcquireOneMore(cur, size, done) == ~done /\ cur <= size

\* semaphore.Weighted.Acquire succeeds: a permit is free and the context is
\* not done
CanAcquire(cur, size, done) == ~done /\ cur < size

\* mutant: the permit is not given back
ReleaseSkipped(cur) == cur

\* the deferred sem.Release(1)
Release(cur) == cur - 1

\* mutant: the lock is taken although it is held
TryLockAlways(mu) == TRUE

\* zipMu.Lock goes through: the mutex is free
TryLock(mu) == mu = 0

\* mutant: the path returns without zipMu.Unlock
UnlockSkipped(mu) == mu

\* zipMu.Unlock by the task that holds the mutex
Unlock(mu) == 0

\* sem.Acquire(ctx, 1) gives a slot
AcquireSlot(i) ==
    /\ tasks[i].pc = "acquire"
    /\ CanAcquire(fetchSem, cfg.maxConcurrent, ctxDone)
    /\ fetchSem' = fetchSem + 1
    /\ tasks' = [tasks EXCEPT ![i].pc = "get"]
    /\ UNCHANGED <<zipMu, archive, stream, resultChan, coll, ctxDone, metrics>>

\* sem.Acquire(ctx, 1) fails: the context is done
AcquireFails(i) ==
    /\ tasks[i].pc = "acquire"
    /\ ctxDone
    /\ Send(i, tasks[i].fetch, "error", "context canceled", 0)
    /\ UNCHANGED <<fetchSem, zipMu, archive, stream, coll, ctxDone>>

\* h.storage.GetObject and the handling of its error; the deferred
\* sem.Release runs on the return
GetBody(i) ==
    /\ tasks[i].pc = "get"
    /\ \E res \in {"ok"} \cup FetchErrors :
        IF res = "ok"
        THEN /\ tasks' = [tasks EXCEPT ![i].pc = "lock", ![i].fetch = res]
             /\ UNCHANGED <<fetchSem, resultChan, metrics>>
        ELSE /\ IF cfg.ignoreMissing
                THEN Send(i, res, "missing", "nil", 0)
                ELSE Send(i, res, "error", res, 0)
             /\ fetchSem' = Release(fetchSem)
    /\ UNCHANGED <<zipMu, archive, stream, coll, ctxDone>>

\* zipMu.Lock and zw.CreateHeader.  A header that fails to be written may or
\* may not already be in the writer's directory.
CreateHeader(i) ==
    /\ tasks[i].pc = "lock"
    /\ TryLock(zipMu)
    /\ \E ok \in BOOLEAN, listed \in BOOLEAN :
        /\ (ok => listed)
        /\ archive' = IF listed THEN Append(archive, [key |-> i, written |-> 0])
                      ELSE archive
        /\ stream' = IF listed THEN Append(stream, [key |-> i, chunk |-> 0])
                     ELSE stream
        /\ IF ok
           THEN /\ zipMu' = i
                /\ tasks' = [tasks EXCEPT ![i].pc = "copy"]
                /\ UNCHANGED <<fetchSem, resultChan, metrics>>
           ELSE /\ Send(i, tasks[i].fetch, "error", "header error", 1)
                /\ fetchSem' = Release(fetchSem)
                /\ zipMu' = Unlock(i)
    /\ UNCHANGED <<coll, ctxDone>>

\* one buffer-full written to the entry the task created
WriteChunk(a, i) ==
    [k \in DOMAIN a |->
        IF k = Len(a) /\ a[k].key = i THEN [a[k] EXCEPT !.written = @ + 1] ELSE a[k]]

\* one turn of the copy loop: body.Read, then inBc.Write of what was read
CopyChunk(i) ==
    /\ tasks[i].pc = "copy"
    /\ zipMu = i
    /\ tasks[i].read < tasks[i].size
    /\ \E written \in BOOLEAN :
        IF written
        THEN /\ archive' = WriteChunk(archive, i)
             /\ stream' = Append(stream, [key |-> i, chunk |-> tasks[i].read + 1])
             /\ tasks' = [tasks EXCEPT ![i].read = @ + 1]
             /\ UNCHANGED <<fetchSem, zipMu, resultChan, metrics>>
        ELSE /\ Send(i, tasks[i].fetch, "error", "write error", 1)
             /\ zipMu' = Unlock(zipMu)
             /\ fetchSem' = Release(fetchSem)
             /\ UNCHANGED <<archive, stream>>
    /\ UNCHANGED <<coll, ctxDone>>

\* body.Read fails with an error that is not io.EOF
ReadFails(i) ==
    /\ tasks[i].pc = "copy"
    /\ zipMu = i
    /\ Send(i, tasks[i].fetch, "error", "read error", 1)
    /\ zipMu' = Unlock(zipMu)
    /\ fetchSem' = Release(fetchSem)
    /\ UNCHANGED <<archive, stream, coll, ctxDone>>

\* mutant: the sum is stored over what the other tasks added
AddInt64Lost(cur, n) == n

\* atomic.AddInt64(inBytes, inBc.Count)
AddInt64(cur, n) == cur + n

\* body.Read returns io.EOF: the entry is complete, its bytes are added to
\* Download's inBytes
CopyDone(i) ==
    /\ tasks[i].pc = "copy"
    /\ zipMu = i
    /\ tasks[i].read = tasks[i].size
    /\ Send(i, tasks[i].fetch, "success", "nil", 1)
    /\ zipMu' = Unlock(zipMu)
    /\ fetchSem' = Release(fetchSem)
    /\ coll' = [coll EXCEPT !.inBytes = AddInt64(@, tasks[i].read)]
    /\ UNCHANGED <<archive, stream, ctxDone>>

\* mutant: the error kept is the last one received
ReceiveKeepsLast(c, res) ==
    IF res.success
    THEN [c EXCEPT !.received = @ + 1, !.successCount = @ + 1]
    ELSE IF res.err # "nil"
         THEN [c EXCEPT !.received = @ + 1, !.fetchErr = res.err]
    ELSE [c EXCEPT !.received = @ + 1]

\* the body of the collecting loop
Receive(c, res) ==
    IF res.success
    THEN [c EXCEPT !.received = @ + 1, !.successCount = @ + 1]
    ELSE IF res.err # "nil" /\ c.fetchErr = "nil"
         THEN [c EXCEPT !.received = @ + 1, !.fetchErr = res.err]
    ELSE [c EXCEPT !.received = @ + 1]

Collect ==
    /\ coll.received < Len(tasks)
    /\ resultChan # <<>>
    /\ coll' = Receive(coll, Head(resultChan))
    /\ resultChan' = Tail(resultChan)
    /\ UNCHANGED <<tasks, fetchSem, zipMu, archive, stream, ctxDone>>

\* mutant: the collecting loop stops at the first result
AnyReceived(c, n) == c.received >= 1

\* `for range record.Objects`: one receive per object
AllReceived(c, n) == c.received = n

\* outBc.Count when Download reads it for the histogram, the ratio and the
\* callback payload: the writes the encoder has made so far, one unit each
\* (what the encoder still buffers is counted as written)
OutCount(writes) == Len(writes)

\* the units the deferred zw.Close adds to the body: the central directory
DirectoryUnits == 1

\* streamFilesFromStorage returns and Download runs to its end, reading
\* outBc.Count on the way; the deferred zw.Close then writes the central
\* directory, which reaches a client that is still there
StreamDone ==
    /\ Len(tasks) > 0
    /\ AllReceived(coll, Len(tasks))
    /\ ~coll.returned
    /\ LET ret == StreamReturn(cfg.ignoreMissing, Len(tasks),
                               coll.successCount, coll.fetchErr)
           label == DownloadStatus(ret.err, ret.successCount, Len(tasks))
       IN  /\ \E closed \in (IF ctxDone THEN BOOLEAN ELSE {TRUE}) :
                coll' = [coll EXCEPT !.returned = TRUE, !.err = ret.err,
                                     !.status = label,
                                     !.closed = TRUE, !.finalised = closed,
                                     !.outBytes = OutCount(stream),
                                     !.bodyBytes = OutCount(stream) +
                                        (IF closed THEN DirectoryUnits ELSE 0)]
           /\ metrics' = FinishMetrics(metrics, label, ctxDone)
    /\ UNCHANGED <<tasks, fetchSem, zipMu, archive, stream, resultChan, ctxDone>>

\* the client goes away while the archive is streamed
Cancel ==
    /\ Len(tasks) > 0
    /\ ~ctxDone
    /\ ~coll.returned
    /\ ctxDone' = TRUE
    /\ UNCHANGED <<tasks, fetchSem, zipMu, archive, stream, resultChan, coll>>

\* ===================================================== Spec: Download calls
\* A Download call that has not started.  lookups counts its h.db.GetRecord
\* calls, callbacks the sendCallbackWithRetry goroutines it started; streamed
\* says whether it called streamFilesFromStorage, the one place that fetches
\* objects.
IdleReq ==
    [pc |-> "idle", ip |-> "none", arrived |-> 0, held |-> FALSE, releases |-> 0,
     ctxErr |-> FALSE, n |-> 0, status |-> 0, label |-> "none", wrote |-> FALSE,
     lookups |-> 0, streamed |-> FALSE, callbacks |-> 0]

Configs(actives, enforce, ignore) ==
    [maxActiveDownloads : actives,
     enforceSigning : enforce,
     ignoreMissing : ignore,
     maxFilesPerRequest : {MaxFiles},
     allowedExtensions : {<<>>},
     blockedExtensions : {<<<<".", "exe">>>>},
     rateLimitPerIP : {1},
     maxConcurrent : {1}]

\* the query parameters a client may send
RequestIds == {<<>>, <<"t">>, <<"u">>}
ExpiryChars == {"0", "1", "-", "+", "x", "expired"}
Expiries == SeqsUpTo(ExpiryChars, MaxExpiryLen)
\* the expiry strings the concurrent specifications draw from: none, one in
\* the future, one in the past, two that do not parse
FewExpiries == {<<>>, <<"1">>, <<"-", "1">>, <<"x">>, <<"expired">>}

\* signatures to try against an expected one: none, the expected one, the
\* same digest in upper case, one differing in each single position, one
\* too short and one too long
OtherHex(c) == IF c = "0" THEN "1" ELSE "0"

Signatures(expected) ==
    {<<>>, expected, SubSeq(expected, 1, Len(expected) - 1), expected \o <<"0">>}
    \cup {[expected EXCEPT ![i] = OtherHex(expected[i])] : i \in 1..Len(expected)}
    \cup {[i \in 1..Len(expected) |->
              HexUpper[CHOOSE k \in 1..Len(HexLower) : HexLower[k] = expected[i]]]}

\* mutant: the capacity test is off by one
TryAcquireOkLoose(cur, size) == size - cur >= 0

\* the signatures the concurrent specifications draw from
FewSignatures(expected) == {<<>>, expected, expected \o <<"0">>}

\* the manifests the concurrent specifications draw from: an empty one, one
\* whose only file is blocked, and k copies of a key for each k up to one
\* more than the file limit
FewManifests ==
    {<<>>, <<KeyB>>, <<KeyC, KeyB>>} \cup {[i \in 1..k |-> KeyA] : k \in 1..(MaxFiles + 1)}

\* semaphore.Weighted.TryAcquire(1) on a semaphore of the given size
TryAcquireOk(cur, size) == size - cur >= 1

\* Does NewHandler create the semaphore?
HasSemaphore(c) == c.maxActiveDownloads > 0

\* mutant: Release is not deferred, it is called at the end of a streamed
\* download only
ReleasedAtEndOnly(r) == IF r.held /\ r.pc = "stream" THEN 1 ELSE 0

\* the deferred h.maxActiveDownloads.Release(1): how many permits a
\* returning call gives back
ReleasedOnReturn(r) == IF r.held THEN 1 ELSE 0

\* A return of Download after admission: the deferred calls run
\* (ActiveDownloads.Dec, Release), the status is counted.  A call that
\* returns after the verification has called GetRecord; one that returns
\* from the end of Download has streamed and started the callback goroutine.
Return(p, status, label, wrote) ==
    /\ req' = [req EXCEPT ![p] = [@ EXCEPT !.pc = "returned", !.status = status,
                                            !.label = label, !.wrote = wrote,
                                            !.lookups = IF req[p].pc = "lookup"
                                                        THEN @ + 1 ELSE @,
                                            !.streamed = req[p].pc = "stream",
                                            !.callbacks = IF req[p].pc = "stream"
                                                          THEN @ + 1 ELSE @,
                                            !.held = FALSE,
                                            !.releases = @ + ReleasedOnReturn(req[p])]]
    /\ semCur' = semCur - ReleasedOnReturn(req[p])

\* Download, entry: the capacity check.  Calls start in index order (the
\* index only names the call).
Begin(p) ==
    /\ req[p].pc = "idle"
    /\ \A q \in Procs : q < p => req[q].pc # "idle"
    /\ \E ip \in clients :
        IF HasSemaphore(cfg) /\ ~TryAcquireOk(semCur, cfg.maxActiveDownloads)
        THEN /\ req' = [req EXCEPT ![p] = [@ EXCEPT !.pc = "returned", !.ip = ip,
                                                    !.arrived = now, !.status = 503]]
             /\ metrics' = IncRequests(metrics, 503)
             /\ UNCHANGED semCur
        ELSE /\ req' = [req EXCEPT ![p] = [@ EXCEPT !.pc = "verify", !.ip = ip,
                                                    !.arrived = now,
                                                    !.held = HasSemaphore(cfg)]]
             /\ semCur' = IF HasSemaphore(cfg) THEN semCur + 1 ELSE semCur
             /\ metrics' = [metrics EXCEPT !.activeDownloads = @ + 1]
    /\ UNCHANGED <<envVars, now, verVars, locVars, strVars, auxVars>>

\* mutant: a request turned away by the verification is counted as a failed
\* download
ValidateMetricsCountsDownload(m, id, v, status) ==
    LET m1 == IF id = <<>> THEN m
              ELSE [m EXCEPT !.expiredRequestsTotal = @ + v.expiredInc,
                             !.signatureFailuresTotal = @ + v.sigFailInc]
    IN  IF status = 0 THEN m1
        ELSE IncRequests(DecActive([m1 EXCEPT !.downloadsTotal["failed"] = @ + 1]),
                         status)

\* the counters after Download's id check and Verify
ValidateMetrics(m, id, v, status) ==
    LET m1 == IF id = <<>> THEN m
              ELSE [m EXCEPT !.expiredRequestsTotal = @ + v.expiredInc,
                             !.signatureFailuresTotal = @ + v.sigFailInc]
    IN  IF status = 0 THEN m1
        ELSE IncRequests(DecActive(m1), status)

\* Download from mux.Vars to the verification, for the given id and query
\* parameters
ValidateWith(p, id, expiryStr, signature) ==
    LET v == Verify(id, expiryStr, signature, now, cfg.enforceSigning)
        status == ValidateStatus(id, v)
    IN  /\ metrics' = ValidateMetrics(metrics, id, v, status)
        /\ IF status = 0
           THEN /\ req' = [req EXCEPT ![p].pc = "lookup"]
                /\ UNCHANGED semCur
           ELSE Return(p, status, "none", FALSE)

Validate(p) ==
    /\ req[p].pc = "verify"
    /\ \E id \in {<<>>, <<"t">>}, expiryStr \in FewExpiries :
       \E signature \in FewSignatures(ExpectedSig(id, expiryStr)) :
            ValidateWith(p, id, expiryStr, signature)
    /\ UNCHANGED <<envVars, now, verVars, locVars, strVars, auxVars>>

\* the status of Download's early return after GetRecord (0: go on to stream)
RecordStatus(dbErr, objects, c) ==
    IF LookupStatus(dbErr) # 0 THEN LookupStatus(dbErr) ELSE LimitStatus(objects, c)

\* Download from GetRecord to the response headers, for what GetRecord
\* returned
LookupWith(p, dbErr, objects) ==
    LET status == RecordStatus(dbErr, objects, cfg)
        filtered == filterFilesByExtension(objects, cfg.allowedExtensions,
                                           cfg.blockedExtensions)
    IN  IF status = 0
        THEN /\ req' = [req EXCEPT ![p] = [@ EXCEPT !.pc = "stream",
                                                    !.lookups = @ + 1,
                                                    !.n = Len(filtered)]]
             /\ UNCHANGED <<semCur, metrics>>
        ELSE /\ Return(p, status, "none", FALSE)
             /\ metrics' = IncRequests(DecActive(metrics),
                                       status)

Lookup(p) ==
    /\ req[p].pc = "lookup"
    /\ \E dbErr \in DbErrors \cup {"nil"} :
       \E objects \in (IF dbErr = "nil" THEN FewManifests ELSE {<<>>}) :
            LookupWith(p, dbErr, objects)
    /\ UNCHANGED <<envVars, now, verVars, locVars, strVars, auxVars>>

\* Download from streamFilesFromStorage to its end.  The tasks' results are
\* drawn here; SpecStream models how they come about.
Finish(p) ==
    /\ req[p].pc = "stream"
    /\ \E results \in [1..req[p].n -> TaskResults(cfg.ignoreMissing)] :
        LET ret == StreamReturn(cfg.ignoreMissing, req[p].n,
                                SuccessCount(results), FirstError(results))
            label == DownloadStatus(ret.err, ret.successCount, req[p].n)
        IN  /\ Return(p, 200, label, TRUE)
            /\ metrics' = FinishMetrics(metrics, label, req[p].ctxErr)
    /\ UNCHANGED <<envVars, now, verVars, locVars, strVars, auxVars>>

\* the client goes away: the request context is cancelled
Disconnect(p) ==
    /\ req[p].pc \in {"lookup", "stream"}
    /\ ~req[p].ctxErr
    /\ req' = [req EXCEPT ![p].ctxErr = TRUE]
    /\ UNCHANGED <<envVars, now, semCur, verVars, metrics, locVars, strVars, auxVars>>

Tick ==
    /\ now < MaxTime
    /\ now' = now + 1
    /\ UNCHANGED <<envVars, semCur, req, verVars, metrics, locVars, strVars, auxVars>>

NoInput == [id |-> <<>>, expiryStr |-> <<>>, signature |-> <<>>]
NoOutput == [called |-> FALSE, err |-> NoError, dbErr |-> "none"]

Init ==
    /\ cfg \in Configs(1..MaxActive, {TRUE}, {TRUE})
    /\ clients = {"ip1"}
    /\ now = 0
    /\ semCur = 0
    /\ req = [p \in Procs |-> IdleReq]
    /\ vIn = NoInput
    /\ vOut = NoOutput
    /\ metrics = ZeroMetrics
    /\ AuxUnused
    /\ LocalUnused
    /\ StreamUnused

Next ==
    \/ \E p \in Procs : Begin(p)
    \/ \E p \in Procs : Validate(p)
    \/ \E p \in Procs : Lookup(p)
    \/ \E p \in Procs : Finish(p)
    \/ \E p \in Procs : Disconnect(p)

Spec == Init /\ [][Next]_vars

\* ------------------------------------- SpecRate: clients, addresses, time
\* The same Download calls with RATE_LIMIT_PER_IP = 1, no capacity limit,
\* two client addresses and a clock.
InitRate ==
    /\ cfg \in Configs({0}, {FALSE}, {FALSE})
    /\ clients = IPs
    /\ now = 0
    /\ semCur = 0
    /\ req = [p \in Procs |-> IdleReq]
    /\ vIn = NoInput
    /\ vOut = NoOutput
    /\ metrics = ZeroMetrics
    /\ AuxUnused
    /\ LocalUnused
    /\ StreamUnused

RateProcs == {1, 2}

NextRate ==
    \/ \E p \in RateProcs : Begin(p)
    \/ \E p \in RateProcs : Validate(p)
    \/ \E p \in RateProcs : Lookup(p)
    \/ \E p \in RateProcs : Finish(p)
    \/ \E p \in RateProcs : Disconnect(p)
    \/ Tick

SpecRate == InitRate /\ [][NextRate]_vars

\* ------------------------------ SpecVerify: one request, kept in the state
\* Download from mux.Vars to the verification, for the request on the wire;
\* vOut keeps what Verify returned.
ValidateWire(p) ==
    /\ req[p].pc = "verify"
    /\ ValidateWith(p, vIn.id, vIn.expiryStr, vIn.signature)
    /\ vOut' = [vOut EXCEPT !.called = vIn.id # <<>>,
                            !.err = IF vIn.id = <<>> THEN NoError
                                    ELSE Verify(vIn.id, vIn.expiryStr, vIn.signature,
                                                now, cfg.enforceSigning).err]
    /\ UNCHANGED <<envVars, now, vIn, locVars, strVars, auxVars>>

\* Download from GetRecord to the response headers; vOut keeps what
\* GetRecord returned.
LookupWire(p) ==
    /\ req[p].pc = "lookup"
    /\ \E dbErr \in DbErrors \cup {"nil"} :
       \E objects \in (IF dbErr = "nil" THEN Manifests ELSE {<<>>}) :
            /\ LookupWith(p, dbErr, objects)
            /\ vOut' = [vOut EXCEPT !.dbErr = dbErr]
    /\ UNCHANGED <<envVars, now, vIn, locVars, strVars, auxVars>>

WireRequests ==
    UNION {[id : {id}, expiryStr : {e}, signature : Signatures(ExpectedSig(id, e))] :
           <<id, e>> \in RequestIds \X Expiries}

InitVerify ==
    /\ cfg \in Configs({0}, BOOLEAN, {TRUE})
    /\ clients = {"ip1"}
    /\ now \in 0..MaxTime
    /\ semCur = 0
    /\ req = [p \in Procs |-> IdleReq]
    /\ vIn \in WireRequests
    /\ vOut = NoOutput
    /\ metrics = ZeroMetrics
    /\ AuxUnused
    /\ LocalUnused
    /\ StreamUnused

NextVerify ==
    \/ Begin(1)
    \/ ValidateWire(1)
    \/ LookupWire(1)
    \/ Finish(1)
    \/ Disconnect(1)

SpecVerify == InitVerify /\ [][NextVerify]_vars

\* ------------------------------------- SpecLocal: one GetObject call
\* every bucket and key, with a context that is live or already cancelled
PathInputs ==
    {[NoLocalInput EXCEPT !.bucket = b, !.key = k, !.cancelAt = c] :
        b \in Buckets, k \in ObjectKeys, c \in {Never, 0}}

\* one object, with every course of failing attempts and cancellation
RetryInputsOf(backend, kinds) ==
    {[backend |-> backend, bucket |-> <<>>, key |-> <<"a">>, cancelAt |-> c,
      faults |-> n, fault |-> f, maxRetries |-> m] :
        c \in {Never} \cup 0..MaxCancel, n \in 0..(MaxRetries + 1),
        f \in kinds, m \in 0..MaxRetries}

RetryInputs == RetryInputsOf("local", LocalFaults) \cup RetryInputsOf("s3", S3Faults)

InitLocal ==
    /\ cfg \in Configs({0}, {FALSE}, {FALSE})
    /\ clients = {"ip1"}
    /\ now = 0
    /\ semCur = 0
    /\ req = [p \in Procs |-> IdleReq]
    /\ vIn = NoInput
    /\ vOut = NoOutput
    /\ metrics = ZeroMetrics
    /\ AuxUnused
    /\ lIn \in PathInputs \cup RetryInputs
    /\ lOut = NoLocalOutput
    /\ breaker \in {NewBreaker(1), SetState(NewBreaker(1), "open", 0)}
    /\ call = NoCall
    /\ StreamUnused

NextLocal == GetObject \/ S3GetObject

SpecLocal == InitLocal /\ [][NextLocal]_vars


\* ------------------------------ SpecStream: the tasks of one download
InitStream ==
    /\ cfg \in {[c EXCEPT !.maxConcurrent = k] :
                    c \in Configs({0}, {FALSE}, BOOLEAN), k \in 1..MaxConcurrent}
    /\ clients = {"ip1"}
    /\ now = 0
    /\ semCur = 0
    /\ req = [p \in Procs |-> IdleReq]
    /\ vIn = NoInput
    /\ vOut = NoOutput
    /\ metrics = [ZeroMetrics EXCEPT !.activeDownloads = 1]
    /\ AuxUnused
    /\ LocalUnused
    /\ tasks \in {[i \in 1..n |-> NewTask(size)] :
                    n \in 1..MaxFiles, size \in {0, MaxChunks}}
    /\ fetchSem = 0
    /\ zipMu = 0
    /\ archive = <<>>
    /\ stream = <<>>
    /\ resultChan = <<>>
    /\ coll = NoColl
    /\ ctxDone = FALSE

NextStream ==
    \/ \E i \in DOMAIN tasks :
        /\ \/ AcquireSlot(i) \/ AcquireFails(i) \/ GetBody(i) \/ CreateHeader(i)
           \/ CopyChunk(i) \/ ReadFails(i) \/ CopyDone(i)
        /\ UNCHANGED <<envVars, now, reqVars, verVars, locVars, auxVars>>
    \/ Collect /\ UNCHANGED <<envVars, now, reqVars, verVars, metrics, locVars, auxVars>>
    \/ StreamDone /\ UNCHANGED <<envVars, now, reqVars, verVars, locVars, auxVars>>
    \/ Cancel /\ UNCHANGED <<envVars, now, reqVars, verVars, metrics, locVars, auxVars>>

SpecStream == InitStream /\ [][NextStream]_vars

\* -------------------------- SpecBreaker: calls through the breaker
InitBreaker ==
    /\ cfg \in Configs({0}, {FALSE}, {FALSE})
    /\ clients = {"ip1"}
    /\ now = 0
    /\ semCur = 0
    /\ req = [p \in Procs |-> IdleReq]
    /\ vIn = NoInput
    /\ vOut = NoOutput
    /\ metrics = ZeroMetrics
    /\ AuxUnused
    /\ lIn = NoLocalInput
    /\ lOut = NoLocalOutput
    /\ breaker \in {NewBreaker(m) : m \in 1..MaxProbes}
    /\ call = NoCall
    /\ StreamUnused

NextBreaker == ExecuteBegin \/ ExecuteEnd \/ Elapse

SpecBreaker == InitBreaker /\ [][NextBreaker]_vars

\* ------------- SpecStore: fetches of several requests, one shared breaker
\* main hands the one storageBreaker to the storage provider, so the
\* GetObject calls of all requests go through it.  The objects asked for: a
\* file that is there, one that is missing, a key that leaves the base
\* directory, and an S3 object that is there or missing.
StoreInputs ==
    {[NoLocalInput EXCEPT !.key = <<"a">>],
     [NoLocalInput EXCEPT !.key = <<"e">>],
     [NoLocalInput EXCEPT !.bucket = <<".", ".">>, !.key = <<"a">>],
     [NoLocalInput EXCEPT !.backend = "s3", !.key = <<"a">>],
     [NoLocalInput EXCEPT !.backend = "s3", !.key = <<"e">>, !.faults = 1,
                          !.fault = "NoSuchKey"]}

\* the next GetObject call is about to be made, by the same request or by
\* another one; `call` keeps the run of failed fetches so far and the
\* instant of the last of them
FetchNext ==
    /\ lOut.called
    /\ call.calls < MaxCalls
    /\ lIn' \in StoreInputs
    /\ lOut' = NoLocalOutput
    /\ call' = [call EXCEPT
                  !.calls = @ + 1,
                  !.admitted = lOut.ran,
                  !.startedAt = now,
                  !.ended = IF ~lOut.ran THEN "refused"
                            ELSE IF lOut.err = "nil" THEN "success"
                            ELSE "failure",
                  !.failRun = IF ~lOut.ran THEN @
                              ELSE IF lOut.err = "nil" THEN 0
                              ELSE @ + 1,
                  !.failAt = IF lOut.ran /\ lOut.err # "nil" THEN now ELSE @]
    /\ UNCHANGED <<envVars, now, reqVars, verVars, metrics, breaker, strVars, auxVars>>

\* time passes between two fetches
Wait == ~lOut.called /\ Elapse

InitStore ==
    /\ cfg \in Configs({0}, {FALSE}, BOOLEAN)
    /\ clients = {"ip1"}
    /\ now = 0
    /\ semCur = 0
    /\ req = [p \in Procs |-> IdleReq]
    /\ vIn = NoInput
    /\ vOut = NoOutput
    /\ metrics = ZeroMetrics
    /\ AuxUnused
    /\ lIn \in StoreInputs
    /\ lOut = NoLocalOutput
    /\ breaker = NewBreaker(1)
    /\ call = NoCall
    /\ StreamUnused

NextStore == GetObject \/ S3GetObject \/ FetchNext \/ Wait

SpecStore == InitStore /\ [][NextStore]_vars

\* ============================================ SpecCallback: the callback
\* The callback URLs of a record: none, one that parses, one that
\* http.NewRequest rejects.
CallbackUrls == {"", "http://cb", ":bad"}

\* What the endpoint does with one POST: client.Do fails (no response, a
\* timeout, too many redirects), or it returns the final response.
CallbackStatuses == {101, 200, 204, 304, 404, 500}

Responses ==
    {[err |-> "send error", status |-> 0]}
    \cup {[err |-> "nil", status |-> st] : st \in CallbackStatuses}

\* Handler.sendCallback, for what the endpoint answers if it is asked
sendCallback(url, resp) ==
    IF url = ":bad"
    THEN [posted |-> FALSE, resp |-> resp, err |-> "request creation error"]
    ELSE IF resp.err # "nil"
    THEN [posted |-> TRUE, resp |-> resp, err |-> "send error"]
    ELSE IF resp.status >= 400
    THEN [posted |-> TRUE, resp |-> resp, err |-> "bad status"]
    ELSE [posted |-> TRUE, resp |-> resp, err |-> "nil"]

\* mutant: the loop runs once more
AttemptsLeftOneMore(attempt, maxRetries) == attempt <= maxRetries + 1

\* the loop condition of sendCallbackWithRetry
AttemptsLeft(attempt, maxRetries) == attempt <= maxRetries

\* the delay before the given attempt (attempt >= 1)
CallbackBackoff(attempt) == CallbackRetryDelay * 2^(attempt - 1)

\* sendCallbackWithRetry, entry: nothing to do without a URL
CallbackBegin ==
    /\ cb.pc = "idle"
    /\ cb' = [cb EXCEPT !.pc = IF cb.url = "" THEN "done" ELSE "loop"]
    /\ UNCHANGED <<envVars, now, reqVars, verVars, metrics, locVars, strVars,
                   pIn, pOut, bc>>

\* one iteration of the loop: count the retry and sleep, send, count the
\* outcome
CallbackAttempt ==
    /\ cb.pc = "loop"
    /\ AttemptsLeft(cb.attempt, cb.maxRetries)
    /\ \E resp \in Responses :
        LET r == sendCallback(cb.url, resp)
            m1 == IF cb.attempt > 0
                  THEN [metrics EXCEPT !.callbackRetries = @ + 1]
                  ELSE metrics
            slept == IF cb.attempt > 0
                     THEN cb.slept + CallbackBackoff(cb.attempt)
                     ELSE cb.slept
            tries == Append(cb.tries, r)
        IN  IF r.err = "nil"
            THEN /\ metrics' = [m1 EXCEPT !.callbacksTotal["success"] = @ + 1]
                 /\ cb' = [cb EXCEPT !.pc = "done", !.tries = tries,
                                     !.slept = slept]
            ELSE /\ metrics' = IF cb.attempt = cb.maxRetries
                               THEN [m1 EXCEPT !.callbacksTotal["failure"] = @ + 1]
                               ELSE m1
                 /\ cb' = [cb EXCEPT !.attempt = @ + 1, !.tries = tries,
                                     !.slept = slept]
    /\ UNCHANGED <<envVars, now, reqVars, verVars, locVars, strVars,
                   pIn, pOut, bc>>

\* the loop is over
CallbackEnd ==
    /\ cb.pc = "loop"
    /\ ~AttemptsLeft(cb.attempt, cb.maxRetries)
    /\ cb' = [cb EXCEPT !.pc = "done"]
    /\ UNCHANGED <<envVars, now, reqVars, verVars, metrics, locVars, strVars,
                   pIn, pOut, bc>>

InitCallback ==
    /\ cfg \in Configs({0}, {FALSE}, {FALSE})
    /\ clients = {"ip1"}
    /\ now = 0
    /\ semCur = 0
    /\ req = [p \in Procs |-> IdleReq]
    /\ vIn = NoInput
    /\ vOut = NoOutput
    /\ metrics = ZeroMetrics
    /\ LocalUnused
    /\ StreamUnused
    /\ cb \in {[NoCallback EXCEPT !.url = u, !.maxRetries = m] :
                    u \in CallbackUrls, m \in 0..MaxCallbackRetries}
    /\ pIn = NoStep
    /\ pOut = NoStep
    /\ bc = NoCounter

NextCallback == CallbackBegin \/ CallbackAttempt \/ CallbackEnd

SpecCallback == InitCallback /\ [][NextCallback]_vars

\* ================================= SpecFilter: the extension filter step
\* ALLOWED_EXTENSIONS and BLOCKED_EXTENSIONS as parseStringList returns them
DotTxt == <<".", "txt">>
DotExe == <<".", "exe">>
ExtLists == SeqsUpTo({DotTxt, DotExe}, 2)

\* Download from the resource limit to the filter's early return, for a
\* loaded record.  filtered is what filterFilesByExtension returns for the
\* record; started is the number of fetch goroutines streaming starts.
DownloadFilter ==
    /\ pIn.fn = "filter"
    /\ pOut = NoStep
    /\ LET status == LimitStatus(pIn.objects, cfg)
           filtered == filterFilesByExtension(pIn.objects, cfg.allowedExtensions,
                                              cfg.blockedExtensions)
       IN  /\ pOut' = [fn |-> "filter", filtered |-> filtered,
                       status |-> IF status = 0 THEN 200 ELSE status,
                       started |-> IF status = 0 THEN Len(filtered) ELSE 0]
           /\ metrics' = IF status = 0 THEN metrics
                         ELSE IncRequests(DecActive(metrics), status)
    /\ UNCHANGED <<envVars, now, reqVars, verVars, locVars, strVars, cb, pIn, bc>>

InitFilter ==
    /\ cfg \in {[c EXCEPT !.maxFilesPerRequest = k, !.allowedExtensions = al,
                          !.blockedExtensions = bl] :
                    c \in Configs({0}, {FALSE}, {FALSE}), k \in {0, MaxFiles},
                    al \in ExtLists, bl \in ExtLists}
    /\ clients = {"ip1"}
    /\ now = 0
    /\ semCur = 0
    /\ req = [p \in Procs |-> IdleReq]
    /\ vIn = NoInput
    /\ vOut = NoOutput
    /\ metrics = [ZeroMetrics EXCEPT !.activeDownloads = 1]
    /\ LocalUnused
    /\ StreamUnused
    /\ cb = NoCallback
    /\ pIn \in {[fn |-> "filter", objects |-> o] : o \in Manifests}
    /\ pOut = NoStep
    /\ bc = NoCounter

NextFilter == DownloadFilter

SpecFilter == InitFilter /\ [][NextFilter]_vars

\* ================================ SpecFilename: the archive's file name
\* record.Name: up to MaxNameParts pieces, each a character or a .zip
\* suffix in either case
NameParts ==
    {<<"a">>, <<".">>, <<" ">>, <<"/">>, <<"é">>, DotZip, <<".", "Z", "I", "P">>}

RECURSIVE Concat(_)
Concat(parts) == IF parts = <<>> THEN <<>> ELSE Head(parts) \o Concat(Tail(parts))

Names == {Concat(parts) : parts \in SeqsUpTo(NameParts, MaxNameParts)}

\* prepareFilename on a record's name
PrepareName ==
    /\ pIn.fn = "filename"
    /\ pOut = NoStep
    /\ pOut' = [fn |-> "filename", again |-> FALSE,
                name |-> prepareFilename(pIn.name, pIn.sanitizeNames,
                                         pIn.appendYMD)]
    /\ UNCHANGED <<envVars, now, reqVars, verVars, metrics, locVars, strVars,
                   cb, pIn, bc>>

\* prepareFilename on a name it returned, as for a record whose name is
\* the file name of an earlier download
PrepareAgain ==
    /\ pOut.fn = "filename"
    /\ ~pOut.again
    /\ pOut' = [fn |-> "filename", again |-> TRUE, first |-> pOut.name,
                name |-> prepareFilename(pOut.name, pIn.sanitizeNames,
                                         pIn.appendYMD)]
    /\ UNCHANGED <<envVars, now, reqVars, verVars, metrics, locVars, strVars,
                   cb, pIn, bc>>

InitFilename ==
    /\ cfg \in Configs({0}, {FALSE}, {FALSE})
    /\ clients = {"ip1"}
    /\ now = 0
    /\ semCur = 0
    /\ req = [p \in Procs |-> IdleReq]
    /\ vIn = NoInput
    /\ vOut = NoOutput
    /\ metrics = ZeroMetrics
    /\ LocalUnused
    /\ StreamUnused
    /\ cb = NoCallback
    /\ pIn \in {[fn |-> "filename", name |-> n, sanitizeNames |-> sn,
                 appendYMD |-> ymd] :
                    n \in Names, sn \in BOOLEAN, ymd \in BOOLEAN}
    /\ pOut = NoStep
    /\ bc = NoCounter

NextFilename == PrepareName \/ PrepareAgain

SpecFilename == InitFilename /\ [][NextFilename]_vars

\* ==================================== SpecHeaders: the response headers
\* the header names of a record's custom_headers: two spellings of one
\* header, another header, and spellings of the two headers Download sets
HeaderNames ==
    {<<"X", "-", "A">>, <<"x", "-", "a">>, <<"X", "-", "E">>,
     ContentType, ToLower(ContentType),
     [i \in DOMAIN ContentType |-> UpperChar(ContentType[i])],
     ToLower(ContentDisposition)}

HeaderValues == {<<"v1">>, <<"v2">>}

\* record.CustomHeaders: a map of up to MaxHeaders names
CustomHeaderMaps ==
    UNION {[names -> HeaderValues] :
            names \in {n \in SUBSET HeaderNames : Cardinality(n) <= MaxHeaders}}

\* the orders a range over the map may take
RangeOrders(m) ==
    {o \in [1..Cardinality(DOMAIN m) -> DOMAIN m] :
        \A i, j \in DOMAIN o : i # j => o[i] # o[j]}

\* Download from prepareFilename to the response headers
SetHeaders ==
    /\ pIn.fn = "headers"
    /\ pOut = NoStep
    /\ \E order \in RangeOrders(pIn.custom) :
        LET filename == prepareFilename(pIn.name, pIn.sanitizeNames, pIn.appendYMD)
        IN  pOut' = [fn |-> "headers", filename |-> filename,
                     header |-> ResponseHeaders(pIn.custom, order, filename)]
    /\ UNCHANGED <<envVars, now, reqVars, verVars, metrics, locVars, strVars,
                   cb, pIn, bc>>

InitHeaders ==
    /\ cfg \in Configs({0}, {FALSE}, {FALSE})
    /\ clients = {"ip1"}
    /\ now = 0
    /\ semCur = 0
    /\ req = [p \in Procs |-> IdleReq]
    /\ vIn = NoInput
    /\ vOut = NoOutput
    /\ metrics = ZeroMetrics
    /\ LocalUnused
    /\ StreamUnused
    /\ cb = NoCallback
    /\ pIn \in {[fn |-> "headers", custom |-> m, name |-> n, sanitizeNames |-> sn,
                 appendYMD |-> FALSE] :
                    m \in CustomHeaderMaps, n \in {<<>>, <<"a">>}, sn \in BOOLEAN}
    /\ pOut = NoStep
    /\ bc = NoCounter

NextHeaders == SetHeaders

SpecHeaders == InitHeaders /\ [][NextHeaders]_vars

\* =========================== SpecCounter: goroutines on one ByteCounter
\* A goroutine in ByteCounter.Write: the slice's length, the n the wrapped
\* writer returned, and the Count it read.
NewWriter(len) == [pc |-> "write", len |-> len, n |-> 0, loaded |-> 0]

\* n, err := bc.Writer.Write(p): the wrapped writer takes up to len(p) bytes
WriterWrite(g) ==
    /\ bc.writers[g].pc = "write"
    /\ \E n \in 0..bc.writers[g].len :
        bc' = [bc EXCEPT !.writers[g] = [@ EXCEPT !.pc = "load", !.n = n]]

\* bc.Count += int64(n), first half: the read of Count
LoadCount(g) ==
    /\ bc.writers[g].pc = "load"
    /\ bc' = [bc EXCEPT !.writers[g] = [@ EXCEPT !.pc = "store",
                                                 !.loaded = bc.count]]

\* bc.Count += int64(n), second half: the write of the sum
StoreCount(g) ==
    /\ bc.writers[g].pc = "store"
    /\ bc' = [bc EXCEPT !.count = bc.writers[g].loaded + bc.writers[g].n,
                        !.writers[g] = [@ EXCEPT !.pc = "done"]]

InitCounter ==
    /\ cfg \in Configs({0}, {FALSE}, {FALSE})
    /\ clients = {"ip1"}
    /\ now = 0
    /\ semCur = 0
    /\ req = [p \in Procs |-> IdleReq]
    /\ vIn = NoInput
    /\ vOut = NoOutput
    /\ metrics = ZeroMetrics
    /\ LocalUnused
    /\ StreamUnused
    /\ cb = NoCallback
    /\ pIn = NoStep
    /\ pOut = NoStep
    /\ bc \in {[count |-> 0, writers |-> w] :
                w \in UNION {[1..k -> {NewWriter(len) : len \in 1..MaxWriteLen}] :
                                k \in 1..NumWriters}}

NextCounter ==
    \E g \in DOMAIN bc.writers :
        /\ WriterWrite(g) \/ LoadCount(g) \/ StoreCount(g)
        /\ UNCHANGED <<envVars, now, reqVars, verVars, metrics, locVars, strVars,
                       cb, pIn, pOut>>

SpecCounter == InitCounter /\ [][NextCounter]_vars

\* the same with every step of the request eventually taken
SpecStreamFair == SpecStream /\ WF_vars(NextStream)

\* =============================================================== claims
InFlight == {p \in Procs : req[p].pc \in {"verify", "lookup", "stream"}}

\* C1: with max_active_downloads = M > 0 the number of requests past the
\* global admission and not yet returned never exceeds M, and a request that
\* arrives while M are in flight is answered 503 in that same step: it
\* returns at once, holding nothing, and never waits for a slot.
C1_AdmissionCap ==
    /\ [](HasSemaphore(cfg) => Cardinality(InFlight) <= cfg.maxActiveDownloads)
    /\ [][\A p \in Procs :
            (/\ HasSemaphore(cfg)
             /\ req[p].pc = "idle" /\ req'[p].pc # "idle"
             /\ Cardinality(InFlight) = cfg.maxActiveDownloads)
            => (/\ req'[p].pc = "returned" /\ req'[p].status = 503
                /\ ~req'[p].held
                /\ semCur' = semCur)]_vars

C1_Witness ==
    /\ cfg.maxActiveDownloads = MaxActive
    /\ Cardinality(InFlight) = cfg.maxActiveDownloads
    /\ \E p \in Procs : req[p].pc = "returned" /\ req[p].status = 503

\* C2: a request that acquired an admission slot releases it exactly once
\* when the handler returns, whatever the exit path; the permits held always
\* equal the number of admitted requests in flight, so with no request in
\* flight the semaphore is free and the next request is admitted.
C2_ReleasedExactlyOnce ==
    /\ \A p \in Procs :
        /\ req[p].releases <= 1
        /\ req[p].held => p \in InFlight
        /\ (HasSemaphore(cfg) /\ p \in InFlight) => (req[p].held /\ req[p].releases = 0)
        /\ (HasSemaphore(cfg) /\ req[p].pc = "returned" /\ req[p].status # 503)
            => (req[p].releases = 1 /\ ~req[p].held)
        /\ (req[p].pc = "returned" /\ req[p].status = 503) => req[p].releases = 0
    /\ semCur = Cardinality({p \in Procs : req[p].held})
    /\ (InFlight = {} => TryAcquireOk(semCur, cfg.maxActiveDownloads) \/ ~HasSemaphore(cfg))

\* one request served at full capacity, and a later one admitted
C2_Witness ==
    /\ cfg.maxActiveDownloads = 1
    /\ \E p, q \in Procs :
        /\ req[p].pc = "returned" /\ req[p].status = 200 /\ req[p].releases = 1
        /\ req[q].pc = "verify" /\ req[q].held

\* C3 (as claimed): with rate_limit_per_ip > 0, of two requests from the same
\* client address that reach the handler at the same instant and are not
\* turned away for capacity, one is answered 429.
C3_SecondRequestLimited ==
    \A p, q \in Procs :
        (/\ p # q
         /\ cfg.rateLimitPerIP > 0
         /\ req[p].pc # "idle" /\ req[q].pc # "idle"
         /\ req[p].ip = req[q].ip
         /\ req[p].arrived = req[q].arrived
         /\ req[p].status # 503 /\ req[q].status # 503)
        => (req[p].status = 429 \/ req[q].status = 429)

\* the signature the claims call valid: lower-case hex of the keyed digest
\* of id, or of id | expiry when an expiry is given
ValidSignature ==
    EncodeToString(Hmac(SigningSecret,
        IF vIn.expiryStr = <<>> THEN vIn.id ELSE vIn.id \o <<"|">> \o vIn.expiryStr))

ExpiryNotPast ==
    \/ vIn.expiryStr = <<>>
    \/ ParseInt(vIn.expiryStr).ok /\ ParseInt(vIn.expiryStr).val >= now

ExpiryPast == ParseInt(vIn.expiryStr).ok /\ ParseInt(vIn.expiryStr).val < now

\* C4: for a request whose expiry is absent or not past, Verify accepts the
\* lower-case hex HMAC of id (of id|expiry with an expiry); it rejects every
\* other signature string, the upper-case spelling of the digest included,
\* and an absent signature when signing is enforced, and each such rejection
\* adds one to signature_failures_total (and is answered 401).
C4_VerifyExact ==
    (vOut.called /\ ExpiryNotPast) =>
        /\ vIn.signature = ValidSignature => vOut.err = NoError
        /\ (vIn.signature # ValidSignature /\ (vIn.signature # <<>> \/ cfg.enforceSigning))
            => (/\ vOut.err \in {ErrInvalidSignature, ErrSignatureRequired}
                /\ metrics.signatureFailuresTotal = 1
                /\ req[1].status = 401)
        /\ vOut.err = NoError =>
            (/\ metrics.signatureFailuresTotal = 0
             /\ (vIn.signature = ValidSignature
                 \/ (vIn.signature = <<>> /\ ~cfg.enforceSigning)))

\* the upper-case spelling of the valid digest is refused
C4_Witness ==
    /\ vOut.called /\ ExpiryNotPast
    /\ vIn.expiryStr # <<>>
    /\ vIn.signature # ValidSignature
    /\ vIn.signature = EncodeUpper(Hmac(SigningSecret, Payload(vIn.id, vIn.expiryStr)))
    /\ vOut.err = ErrInvalidSignature
    /\ metrics.signatureFailuresTotal = 1

\* C5: a request whose expiry parses as an integer earlier than the current
\* Unix time is answered 410 whatever its signature and whether or not
\* signing is enforced: expired_requests_total goes up by one,
\* signature_failures_total does not move and no archive body is written.
C5_ExpiredIs410 ==
    (vOut.called /\ ExpiryPast) =>
        /\ req[1].pc = "returned"
        /\ req[1].status = 410
        /\ metrics.expiredRequestsTotal = 1
        /\ metrics.signatureFailuresTotal = 0
        /\ metrics.requestsTotal[410] = 1
        /\ ~req[1].wrote
        /\ \A l \in Labels : metrics.downloadsTotal[l] = 0

\* an expired request with a wrong signature, signing enforced
C5_Witness ==
    /\ vOut.called /\ ExpiryPast
    /\ cfg.enforceSigning
    /\ vIn.signature # ValidSignature /\ vIn.signature # <<>>
    /\ req[1].status = 410

\* C6 (as claimed): an expiry that is present and does not parse as a
\* base-10 integer is answered 400, never 401 or 410, and
\* expired_requests_total does not move.
C6_BadExpiryIs400 ==
    (vOut.called /\ vIn.expiryStr # <<>> /\ ~ParseInt(vIn.expiryStr).ok) =>
        /\ req[1].status = 400
        /\ metrics.expiredRequestsTotal = 0

\* C7 (as claimed): a manifest lookup that fails with a backend error is
\* answered with a 5xx status; only a lookup that finds no manifest gives 404.
C7_BackendErrorIs5xx ==
    /\ vOut.dbErr \in DbErrors \ {"ErrNoRows"} => req[1].status \in 500..599
    /\ vOut.dbErr = "ErrNoRows" => req[1].status = 404

\* Is the cleaned path the base directory or a path below it?
LiesUnderBase(fullPath) ==
    LET b == SplitPath(Tail(BasePath))
        f == SplitPath(Tail(fullPath))
    IN  Len(b) <= Len(f) /\ \A i \in 1..Len(b) : f[i] = b[i]

\* C8 (as claimed): for every (bucket, key) whose cleaned absolute path does
\* not lie under the base directory, a sibling directory whose name starts
\* with the base directory's name included, GetObject returns the
\* path-traversal error and opens no file.
C8_TraversalRejected ==
    (lOut.called /\ lOut.ran
     /\ ~LiesUnderBase(FullPath(BasePath, lIn.bucket, lIn.key)))
    => (lOut.err = "path traversal attempt detected" /\ lOut.opened = {})

\* the tasks that reported success, and the objects with an archive entry
Succeeded == {i \in DOMAIN tasks : tasks[i].report = "success"}
Entries == {archive[k].key : k \in DOMAIN archive}

\* C9 (as claimed): after any download the entries of the archive are
\* exactly the objects whose task reported success -- no entry for a task
\* that reported missing or error, a failure inside the copy loop after the
\* header was created included -- and every entry holds all the source bytes.
C9_ArchiveExact ==
    coll.returned =>
        /\ Entries = Succeeded
        /\ \A k \in DOMAIN archive : archive[k].written = tasks[archive[k].key].size

\* the outcome as the claim words it, from what the tasks reported
ClaimedOutcome ==
    LET n == Len(tasks)
        successCount == Cardinality(Succeeded)
        anyError == \E i \in DOMAIN tasks : tasks[i].err # "nil"
    IN  IF cfg.ignoreMissing /\ successCount = 0 /\ n > 0 THEN "failed"
        ELSE IF ~cfg.ignoreMissing /\ anyError THEN "failed"
        ELSE IF successCount < n THEN "partial"
        ELSE "completed"

\* C10: once all N tasks have reported and Download has finished, the
\* outcome is failed if ignore_missing and no task succeeded, else failed if
\* not ignore_missing and some task reported an error, else partial if fewer
\* than N succeeded, else completed; downloads_total has been incremented
\* exactly once, under that label.
C10_Outcome ==
    /\ coll.returned =>
        /\ coll.status = ClaimedOutcome
        /\ metrics.downloadsTotal =
               [l \in Labels |-> IF l = coll.status THEN 1 ELSE 0]
    /\ ~coll.returned => metrics.downloadsTotal = [l \in Labels |-> 0]

\* C10 witness: a finished download under ignore_missing in which one task
\* succeeded and another reported a read error: partial, counted once
C10_Witness ==
    /\ coll.returned
    /\ cfg.ignoreMissing
    /\ coll.status = "partial"
    /\ \E i \in DOMAIN tasks : tasks[i].err = "read error"
    /\ metrics.downloadsTotal["partial"] = 1

\* C11: partial is reached only under ignore_missing; without it, every
\* request in which fewer than N objects succeeded is failed, whichever way
\* the others failed (fetch, header creation, copy, semaphore).
C11_PartialOnlyIgnoreMissing ==
    coll.returned =>
        /\ (coll.status = "partial" => cfg.ignoreMissing)
        /\ (~cfg.ignoreMissing /\ Cardinality(Succeeded) < Len(tasks)
                => coll.status = "failed")

\* C11 witness: without ignore_missing, one object encoded and another whose
\* header could not be created: failed
C11_Witness ==
    /\ coll.returned
    /\ ~cfg.ignoreMissing
    /\ Succeeded # {}
    /\ \E i \in DOMAIN tasks : tasks[i].err = "header error"
    /\ coll.status = "failed"

\* C12 (as claimed): under ignore_missing only an object whose fetch ended in
\* NotFound is counted missing; a fetch that ended in PermanentError, an
\* exhausted TransientError or CircuitOpen is counted as an error.
C12_OnlyNotFoundIsMissing ==
    cfg.ignoreMissing =>
        \A i \in DOMAIN tasks :
            /\ (tasks[i].report = "missing" => tasks[i].fetch = "NotFound")
            /\ (tasks[i].pc = "done" /\ tasks[i].fetch \in FetchErrors \ {"NotFound"}
                    => tasks[i].report = "error")

\* C13 (as claimed): when a fatal fetch error makes the outcome failed after
\* an object has been encoded (ignore_missing off), the archive is not
\* finalised: no central directory is written.
C13_TruncatedOnFatal ==
    (/\ coll.returned
     /\ ~cfg.ignoreMissing
     /\ coll.status = "failed"
     /\ Succeeded # {})
    => ~coll.finalised

\* C14 (as claimed): with max_concurrent = 1 the entries of the archive are
\* in the manifest's order, for every scheduling of the tasks.
C14_SourceOrder ==
    cfg.maxConcurrent = 1 =>
        \A k, l \in DOMAIN archive : k < l => archive[k].key < archive[l].key

\* C15: each task sends exactly one result and counts exactly one
\* files_fetch_total label, so the three counts add up to N; the outcome is
\* classified only after all N results have been received.
C15_OneReportPerTask ==
    LET done == {i \in DOMAIN tasks : tasks[i].pc = "done"}
    IN  /\ \A l \in FetchLabels :
            metrics.filesFetchTotal[l] =
                Cardinality({i \in DOMAIN tasks : tasks[i].report = l})
        /\ \A i \in DOMAIN tasks : tasks[i].report # "none" <=> i \in done
        /\ Len(resultChan) + coll.received = Cardinality(done)
        /\ coll.returned =>
            /\ done = DOMAIN tasks
            /\ coll.received = Len(tasks)
            /\ metrics.filesFetchTotal["success"] + metrics.filesFetchTotal["missing"]
                 + metrics.filesFetchTotal["error"] = Len(tasks)

\* C15 witness: a finished request of two objects, one encoded and one skipped
C15_Witness ==
    /\ coll.returned
    /\ Len(tasks) = 2
    /\ metrics.filesFetchTotal["success"] = 1
    /\ metrics.filesFetchTotal["missing"] = 1

\* C16: the active_downloads gauge goes up once for a request that passes the
\* capacity check and down when that request returns, so it always equals
\* the number of such requests in flight: never negative, and back at its
\* starting value once all requests have finished, whatever their outcomes.
C16_GaugeBalanced ==
    /\ metrics.activeDownloads = Cardinality(InFlight)
    /\ metrics.activeDownloads >= 0
    /\ (InFlight = {} => metrics.activeDownloads = 0)

\* C16 witness: all requests over, one turned away with 503 and one whose
\* download failed after the client had gone
C16_Witness ==
    /\ \A p \in Procs : req[p].pc = "returned"
    /\ \E p \in Procs : req[p].status = 503
    /\ \E p \in Procs : req[p].label = "failed" /\ req[p].ctxErr
    /\ metrics.activeDownloads = 0

\* C17 (as claimed): from closed, after `threshold` failing calls in a row
\* with no success between them, a call made before breaker_timeout has
\* passed since the last of them is refused without the wrapped function
\* being invoked; and a successful call made in closed leaves the breaker
\* closed.
C17_TripsAfterThreshold ==
    /\ ~(/\ call.pc = "running"
         /\ call.failRun >= BreakerThreshold
         /\ call.startedAt - call.failAt < BreakerTimeout)
    /\ (call.pc = "idle" /\ call.ended = "success" /\ ~call.probe
            => breaker.state = "closed")

\* C18 (as claimed): a call made after the breaker has been open for longer
\* than breaker_timeout is admitted as a probe; one successful probe closes
\* the breaker, whatever max_probes is; a failed probe opens it again with a
\* fresh open period.
C18_ProbeDecides ==
    /\ (call.ended = "refused" /\ breaker.state = "open"
            => call.startedAt <= breaker.expiry)
    /\ (call.pc = "idle" /\ call.probe /\ call.ended = "success"
            => breaker.state = "closed")
    /\ (call.pc = "idle" /\ call.probe /\ call.ended = "failure"
            => breaker.state = "open" /\ breaker.expiry = call.failAt + BreakerTimeout)

\* the gauge value the claim gives each state
ClaimedGauge(state) ==
    CASE state = "closed" -> 0
      [] state = "open" -> 1
      [] state = "half-open" -> 2

\* C19 (as claimed): the gauge circuit_breaker_state holds the breaker's
\* state as 0 = closed, 1 = open, 2 = half-open: 1 right after the breaker
\* trips, 2 while it is half-open.
C19_GaugeEncoding ==
    breaker.gauge = ClaimedGauge(breaker.state)

\* C20 (as claimed): one GetObject call attempts the backend at most
\* max_retries times in all, the n-th retry comes after a sleep of
\* retry_delay * 2^(n-1), and the call returns at the first success.
C20_RetryBudget ==
    (lOut.called /\ lOut.ran /\ lIn.maxRetries >= 1) =>
        /\ lOut.attempts <= lIn.maxRetries
        /\ \A n \in DOMAIN lOut.delays : lOut.delays[n] = RetryDelay * 2^(n - 1)
        /\ (lOut.err = "nil" => lOut.attempts = lIn.faults + 1)

\* C21 (as claimed): an attempt that fails with not-found or with a permanent
\* error is never retried, in the filesystem backend and in the S3 backend:
\* the call ends after that one attempt.
C21_OnlyTransientRetried ==
    (/\ lOut.called /\ lOut.ran
     /\ lIn.cancelAt = Never
     /\ lIn.faults >= 1
     /\ lIn.fault \in {"ENOENT", "EACCES", "NoSuchKey", "AccessDenied"})
    => lOut.attempts = 1

\* the instant the n-th sleep of the call starts (attempts take no time)
RECURSIVE SleepStart(_, _)
SleepStart(delays, n) ==
    IF n <= 1 THEN 0 ELSE SleepStart(delays, n - 1) + delays[n - 1]

\* C22 (as claimed): when the context is cancelled while GetObject sleeps
\* between two attempts, the wait ends at the cancellation and GetObject
\* returns the context's error with no further attempt.
C22_SleepEndsAtCancel ==
    (lOut.called /\ lOut.ran /\ lIn.cancelAt # Never) =>
        \A n \in DOMAIN lOut.delays :
            (/\ SleepStart(lOut.delays, n) < lIn.cancelAt
             /\ lIn.cancelAt < SleepStart(lOut.delays, n) + lOut.delays[n])
            => /\ lOut.returnedAt = lIn.cancelAt
               /\ lOut.err = "context canceled"
               /\ lOut.attempts = n

\* C23: once the request context is cancelled, a task still waiting for the
\* fetch semaphore ends with an error result and never calls the object
\* store; the collecting loop still receives all N results and Download
\* returns, with the encoder closed and client_disconnects_total incremented
\* exactly once.
C23_CancelDuringAssembly ==
    /\ [][\A i \in DOMAIN tasks :
            (ctxDone /\ tasks[i].pc = "acquire")
            => \/ tasks'[i] = tasks[i]
               \/ (/\ tasks'[i].pc = "done" /\ tasks'[i].report = "error"
                   /\ tasks'[i].fetch = "none")]_vars
    /\ []((coll.returned /\ ctxDone)
            => (/\ coll.received = Len(tasks)
                /\ coll.closed
                /\ metrics.clientDisconnectsTotal = 1))
    /\ [](~(coll.returned /\ ctxDone) => metrics.clientDisconnectsTotal = 0)
    /\ (ctxDone ~> coll.returned)

\* C23 witness: a finished request whose client went away while a task was
\* waiting for the semaphore
C23_Witness ==
    /\ coll.returned
    /\ ctxDone
    /\ \E i \in DOMAIN tasks :
        tasks[i].err = "context canceled" /\ tasks[i].fetch = "none"
    /\ \E i \in DOMAIN tasks : tasks[i].report = "success"
    /\ metrics.clientDisconnectsTotal = 1

\* C24: a callback with a URL makes at most callback_max_retries + 1
\* attempts and none after a successful one, counts one retry for every
\* attempt after the first, and counts its outcome once when it is over:
\* success if an attempt succeeded, failure if none did.  Without a URL it
\* makes no attempt and counts nothing.
C24_CallbackAttempts ==
    LET n == Len(cb.tries)
        ok == {k \in 1..n : cb.tries[k].err = "nil"}
        total == metrics.callbacksTotal["success"] + metrics.callbacksTotal["failure"]
    IN  /\ n <= cb.maxRetries + 1
        /\ \A k \in ok : k = n
        /\ metrics.callbackRetries = (IF n = 0 THEN 0 ELSE n - 1)
        /\ total <= 1
        /\ (cb.pc = "done" /\ cb.url # "")
            => /\ total = 1
               /\ metrics.callbacksTotal["success"] = 1 <=> ok # {}
               /\ ok = {} => n = cb.maxRetries + 1
        /\ metrics.callbacksTotal["success"] = 1 => ok # {}
        /\ metrics.callbacksTotal["failure"] = 1 => (ok = {} /\ n = cb.maxRetries + 1)
        /\ cb.url = "" => (n = 0 /\ total = 0 /\ metrics.callbackRetries = 0)

\* C24 witness: a callback that succeeded at its last permitted attempt,
\* after at least one retry
C24_Witness ==
    /\ cb.pc = "done"
    /\ cb.url = "http://cb"
    /\ Len(cb.tries) = cb.maxRetries + 1
    /\ Len(cb.tries) >= 2
    /\ cb.tries[Len(cb.tries)].err = "nil"
    /\ metrics.callbacksTotal["success"] = 1
    /\ metrics.callbackRetries = cb.maxRetries

\* C25: an attempt succeeds exactly when the endpoint's final response is
\* 2xx; after any other response or a transport error the callback is
\* retried while retries remain.
C25_Only2xxSucceeds ==
    \A k \in DOMAIN cb.tries :
        LET try == cb.tries[k]
            is2xx == try.resp.err = "nil" /\ try.resp.status \in 200..299
        IN  (try.posted /\ cb.pc = "done")
            => /\ try.err = "nil" <=> is2xx
               /\ (~is2xx /\ k <= cb.maxRetries) => k < Len(cb.tries)

\* what the filter is claimed to keep
ClaimedKept(file) ==
    LET ext == ToLower(Ext(file))
    IN  /\ ext \notin Range(cfg.blockedExtensions)
        /\ (cfg.allowedExtensions # <<>> => ext \in Range(cfg.allowedExtensions))

\* C26: the filter keeps exactly the objects whose lower-cased extension is
\* not blocked and, with an allow list, is allowed, in their order and with
\* their duplicates; a record with nothing left is answered 400 and no fetch
\* is started.
C26_FilterExact ==
    pOut.fn = "filter"
    => /\ pOut.filtered = SelectSeq(pIn.objects, ClaimedKept)
       /\ Len(pOut.filtered) = 0 => (pOut.status = 400 /\ pOut.started = 0)

\* C26 witness: a record with a twice-listed allowed file around a file
\* whose extension is on both lists
C26_Witness ==
    /\ pOut.fn = "filter"
    /\ pIn.objects = <<KeyA, KeyB, KeyA>>
    /\ DotExe \in Range(cfg.allowedExtensions)
    /\ DotExe \in Range(cfg.blockedExtensions)
    /\ pOut.filtered = <<KeyA, KeyA>>
    /\ pOut.status = 200

\* header names are compared without regard to letter case
EqualFold(a, b) == ToLower(a) = ToLower(b)

\* the response carries the header with this value and no other
Carries(name, value) ==
    /\ \E r \in DOMAIN pOut.header : EqualFold(r, name)
    /\ \A r \in DOMAIN pOut.header : EqualFold(r, name) => pOut.header[r] = value

\* C27: the response's Content-Type is application/zip and its
\* Content-Disposition names the prepared file, whatever the record's
\* custom headers say; every other custom header of the record is in the
\* response with the record's value.
C27_HeadersApplied ==
    pOut.fn = "headers"
    => /\ Carries(ContentType, <<"application/zip">>)
       /\ Carries(ContentDisposition,
                  Disposition(prepareFilename(pIn.name, pIn.sanitizeNames,
                                              pIn.appendYMD)))
       /\ \A k \in DOMAIN pIn.custom :
            (~EqualFold(k, ContentType) /\ ~EqualFold(k, ContentDisposition))
            => Carries(k, pIn.custom[k])

\* C28: preparing a prepared file name gives the same name, for every name
\* and both flags.
C28_PrepareIdempotent ==
    (pOut.fn = "filename" /\ pOut.again) => pOut.name = pOut.first

\* the bytes the finished writes returned
RECURSIVE Written(_)
Written(writers) ==
    IF writers = <<>> THEN 0
    ELSE (IF Head(writers).pc = "done" THEN Head(writers).n ELSE 0)
         + Written(Tail(writers))

\* C29: when all the goroutines writing to a ByteCounter have returned,
\* Count is the sum of the byte counts their writes returned.
C29_NoLostUpdate ==
    (\A g \in DOMAIN bc.writers : bc.writers[g].pc = "done")
    => bc.count = Written(bc.writers)

\* C30: at most one task of a request is between creating its entry header
\* and leaving the copy loop, so each entry's writes are next to each other
\* in the stream and in read order.
C30_EncoderSerialised ==
    /\ Cardinality({i \in DOMAIN tasks : tasks[i].pc = "copy"}) <= 1
    /\ \A i \in DOMAIN tasks : tasks[i].pc = "copy" <=> zipMu = i
    /\ \A a, b \in DOMAIN stream :
        (a < b /\ stream[a].key = stream[b].key)
        => \A c \in a..b : stream[c].key = stream[a].key
    /\ \A a \in DOMAIN stream :
        (a > 1 /\ stream[a].chunk > 0)
        => (stream[a - 1].key = stream[a].key
            /\ stream[a - 1].chunk = stream[a].chunk - 1)

\* C30 witness: two tasks have their bodies; one is writing its entry while
\* the other waits for the mutex
C30_Witness ==
    \E i, j \in DOMAIN tasks :
        /\ tasks[i].pc = "copy" /\ tasks[i].read >= 1
        /\ tasks[j].pc = "lock"
        /\ cfg.maxConcurrent >= 2

\* the tasks that hold a permit of the fetch semaphore: between a
\* successful Acquire and the return that runs the deferred Release
Holders == {i \in DOMAIN tasks : tasks[i].pc \in {"get", "lock", "copy"}}

\* C31: at most max_concurrent tasks of a request hold a permit of the
\* fetch semaphore at any time, so at most that many fetches and open
\* bodies exist, however many tasks were started.
C31_FetchPoolBounded ==
    /\ fetchSem = Cardinality(Holders)
    /\ Cardinality(Holders) <= cfg.maxConcurrent
    /\ \A i \in DOMAIN tasks : tasks[i].fetch = "ok" /\ tasks[i].pc # "done"
                                => i \in Holders

\* C31 witness: more tasks than permits, all permits held, a task waiting
C31_Witness ==
    /\ Len(tasks) > cfg.maxConcurrent
    /\ Cardinality(Holders) = cfg.maxConcurrent
    /\ \E i \in DOMAIN tasks : tasks[i].pc = "acquire"
    /\ \E i \in DOMAIN tasks : tasks[i].pc = "copy"
    /\ ~ctxDone

\* C32: a task's fatal error stops no other task: every task reaches its
\* own result, a task that reports success has its whole entry in the
\* archive, and with ignore_missing off the error returned is the first one
\* the collecting loop received.
C32_SiblingsRunOn ==
    /\ <>(\A i \in DOMAIN tasks : tasks[i].pc = "done")
    /\ [](\A i \in DOMAIN tasks :
            tasks[i].report = "success"
            => \E k \in DOMAIN archive :
                archive[k].key = i /\ archive[k].written = tasks[i].size)
    /\ [][(coll'.received = coll.received + 1)
            => coll'.fetchErr =
                IF coll.fetchErr = "nil" /\ ~Head(resultChan).success
                THEN Head(resultChan).err
                ELSE coll.fetchErr]_vars
    /\ []((coll.returned /\ ~cfg.ignoreMissing) => coll.err = coll.fetchErr)

\* C32 witness: with one permit, a task has failed with a fatal error and a
\* task that got the permit after it is writing its entry
C32_Witness ==
    /\ ~cfg.ignoreMissing
    /\ cfg.maxConcurrent = 1
    /\ \E i, j \in DOMAIN tasks :
        /\ tasks[i].pc = "done" /\ tasks[i].report = "error"
        /\ tasks[i].fetch = "PermanentError"
        /\ tasks[j].pc = "copy" /\ tasks[j].read >= 1

\* the bytes written to the entries of the tasks that reported success
RECURSIVE SuccessBytes(_)
SuccessBytes(entries) ==
    IF entries = <<>> THEN 0
    ELSE (IF tasks[Head(entries).key].report = "success"
          THEN Head(entries).written ELSE 0)
         + SuccessBytes(Tail(entries))

\* C33: when streaming has returned, in_bytes is the sum of the bytes of the
\* entries whose task reported success; the bytes of an entry whose copy
\* failed are not in it and no task's addition is lost.
C33_InBytesExact ==
    coll.returned => coll.inBytes = SuccessBytes(archive)

\* C33 witness: a finished request with a whole entry and an entry whose
\* copy failed after its first buffer
C33_Witness ==
    /\ coll.returned
    /\ coll.inBytes >= 1
    /\ \E i, j \in DOMAIN tasks :
        /\ tasks[i].report = "success" /\ tasks[i].size >= 1
        /\ tasks[j].report = "error" /\ tasks[j].read >= 1

\* C34: the out_bytes Download reports is read after the encoder is closed:
\* it is the number of bytes written to the response body for the request,
\* central directory included.
C34_OutBytesAfterClose ==
    coll.returned => coll.outBytes = coll.bodyBytes

\* C35: a GetObject call that finds the breaker open makes no backend
\* attempt and no backoff sleep and returns the breaker's error at once, in
\* both backends.
C35_OpenBreakerNoRetry ==
    (lOut.called /\ breaker.state = "open")
    => /\ lOut.attempts = 0
       /\ lOut.opened = {}
       /\ lOut.delays = <<>>
       /\ lOut.returnedAt = 0
       /\ lOut.err = "circuit breaker is open"

\* C35 witness: a refused call for an object whose fetch would have failed
\* and been retried
C35_Witness ==
    /\ lOut.called
    /\ breaker.state = "open"
    /\ lIn.backend = "s3"
    /\ lIn.faults >= 1
    /\ lIn.maxRetries >= 1
    /\ lOut.err = "circuit breaker is open"

\* C36: a task that took the ZIP mutex has released it exactly once when it
\* reports its result, on every path, and a task that never took it has
\* released nothing; so a task waiting for the mutex gets it in the end.
C36_MutexReleasedOnce ==
    /\ [](\A i \in DOMAIN tasks :
            tasks[i].pc = "done"
            => /\ zipMu # i
               /\ tasks[i].unlocks = (IF tasks[i].fetch = "ok" THEN 1 ELSE 0))
    /\ [](\A i \in DOMAIN tasks : (zipMu = i) <=> (tasks[i].pc = "copy"))
    /\ \A i \in 1..(MaxFiles + 1) :
        (i \in DOMAIN tasks /\ tasks[i].pc = "lock")
            ~> (i \in DOMAIN tasks /\ tasks[i].pc # "lock")

\* C36 witness: a task's copy has failed on a read error and a task that
\* was waiting for the mutex is writing its entry
C36_Witness ==
    \E i, j \in DOMAIN tasks :
        /\ tasks[i].pc = "done" /\ tasks[i].err = "read error"
        /\ tasks[i].unlocks = 1
        /\ tasks[j].pc = "copy"
        /\ cfg.maxConcurrent >= 2

\* C37: streaming a record ends: every task sends its one result into a
\* channel that has room for it and gives its permit back, and the
\* collecting loop returns after one receive per object.
C37_StreamTerminates ==
    /\ <>coll.returned
    /\ []((\E i \in DOMAIN tasks : tasks[i].pc # "done")
            => Len(resultChan) < Len(tasks))
    /\ [](Len(resultChan) + coll.received
            = Cardinality({i \in DOMAIN tasks : tasks[i].pc = "done"}))
    /\ [](coll.returned
            => /\ coll.received = Len(tasks)
               /\ resultChan = <<>>
               /\ fetchSem = 0
               /\ \A i \in DOMAIN tasks : tasks[i].pc = "done")

\* C37 witness: a record with more objects than permits has been streamed
\* to its end with the client connected
C37_Witness ==
    /\ coll.returned
    /\ ~ctxDone
    /\ Len(tasks) > cfg.maxConcurrent
    /\ coll.received = Len(tasks)
    /\ \A i \in DOMAIN tasks : tasks[i].report = "success" /\ tasks[i].size >= 1

\* C38 (as claimed): every error a fetch returns inside the breaker, a
\* missing file and a rejected key included, is counted as a failure of the
\* shared breaker; and after `threshold` such fetches in a row a fetch made
\* before breaker_timeout has passed since the last of them is refused
\* without reaching the backend, whatever ignore_missing is.
C38_MissingObjectsTrip ==
    /\ (lOut.called /\ lOut.ran /\ lOut.err # "nil"
            => breaker.consecutiveFailures >= 1 \/ breaker.state = "open")
    /\ ((lOut.called /\ call.failRun >= BreakerThreshold
                      /\ now - call.failAt < BreakerTimeout)
            => ~lOut.ran /\ lOut.err = "circuit breaker is open")

\* the calls that have returned with the given status
ReturnedWith(status) ==
    {p \in Procs : req[p].pc = "returned" /\ req[p].status = status}

\* C39: a Download turned away before streaming (503, 400, 401, 410, 404)
\* has fetched no object, written no ZIP bytes, counted no downloads_total
\* label and started no callback, and requests_total has been incremented
\* once for it, under its status; a call turned away at the capacity check,
\* for its missing id or by the verification has looked up no manifest.
C39_RejectionLeavesNoTrace ==
    /\ \A p \in Procs :
        (req[p].pc = "returned" /\ req[p].status # 200)
        => /\ req[p].status \in {503, 400, 401, 410, 404}
           /\ ~req[p].streamed
           /\ ~req[p].wrote
           /\ req[p].label = "none"
           /\ req[p].callbacks = 0
           /\ req[p].lookups <= 1
           /\ (req[p].status \in {503, 401, 410} => req[p].lookups = 0)
    /\ \A s \in Statuses \ {200} :
        metrics.requestsTotal[s] = Cardinality(ReturnedWith(s))
    /\ metrics.downloadsTotal["failed"] + metrics.downloadsTotal["partial"]
         + metrics.downloadsTotal["completed"]
            <= Cardinality({p \in Procs : req[p].streamed})

\* C39 witness: one call turned away by the verification before any lookup,
\* another turned away after its lookup for its manifest
C39_Witness ==
    /\ \E p \in Procs : /\ req[p].pc = "returned"
                        /\ req[p].status \in {401, 410}
                        /\ req[p].lookups = 0
    /\ \E p \in Procs : /\ req[p].pc = "returned"
                        /\ req[p].status = 400
                        /\ req[p].lookups = 1
                        /\ ~req[p].streamed
    /\ metrics.downloadsTotal = [l \in Labels |-> 0]

\* C40 (as claimed): when S3Provider.GetObject returns a body, the
\* fetch-timeout context of the attempt that fetched it is still live, so
\* that the caller can read the body to its end.
C40_BodyContextLive ==
    (lOut.called /\ lIn.backend = "s3" /\ lOut.ran /\ lOut.err = "nil")
    => lOut.bodyCtx = "live"

====
